---- MODULE Spec2Model ----
(***************************************************************************)
(* A model of the mochi BitTorrent tracker core: the redis peer store      *)
(* (package redis), the middleware Logic with its built-in response and    *)
(* swarm-interaction hooks (package middleware) and the UDP frontend's     *)
(* per-datagram state machine (package udp).                               *)
(***************************************************************************)
EXTENDS Integers, Sequences, FiniteSets, TLC

(***************************************************************************)
(* Bounds of the model.                                                    *)
(***************************************************************************)
\* peers are 1..NPeers; odd peers have an IPv4 address, even peers an IPv6 one
NPeers == 3
\* torrents are 1..NHashes; each has a 20-byte (v1) and a 32-byte (v2) infohash
NHashes == 1
\* the clock (timecache.NowUnixNano) runs over 0..MaxClock
MaxClock == 2
\* operations performed in one behaviour
MaxOps == 3
\* largest numWant passed to AnnouncePeers
MaxWant == 2
\* largest peer lifetime handed to ScheduleGC
MaxLifetime == 2

(***************************************************************************)
(* bittorrent.InfoHash and bittorrent.Peer                                 *)
(***************************************************************************)
InfoHashV1Len == 20
InfoHashV2Len == 32

InfoHashes == [len : {InfoHashV1Len, InfoHashV2Len}, id : 1..NHashes]

TruncateV1(ih) == [len |-> InfoHashV1Len, id |-> ih.id]

Peers == 1..NPeers

\* a peer whose address is neither IPv4 nor IPv6 (the zero netip.Addr)
InvalidPeer == 0

Is6(p) == p # InvalidPeer /\ p % 2 = 0

Is4(p) == p % 2 = 1

(***************************************************************************)
(* Errors                                                                  *)
(***************************************************************************)
Nil == "nil"

ErrResourceDoesNotExist == "resource does not exist"

(***************************************************************************)
(* The redis data set (package redis).  A redis hash is a function from    *)
(* its fields to their values; a key that does not exist is the empty      *)
(* hash.                                                                   *)
(***************************************************************************)
IH4SeederKey == "CHI_S4_"
IH6SeederKey == "CHI_S6_"
IH4LeecherKey == "CHI_L4_"
IH6LeecherKey == "CHI_L6_"
CountSeederKey == "CHI_C_S"
CountLeecherKey == "CHI_C_L"

\* the key of a swarm's hash: a prefix and the raw infohash
InfoHashKey(infoHash, seeder, v6) ==
    IF seeder /\ v6 THEN <<IH6SeederKey, infoHash>>
    ELSE IF v6 THEN <<IH6LeecherKey, infoHash>>
    ELSE IF seeder THEN <<IH4SeederKey, infoHash>>
    ELSE <<IH4LeecherKey, infoHash>>

InfoHashKeys == {IH4SeederKey, IH6SeederKey, IH4LeecherKey, IH6LeecherKey} \X InfoHashes

EmptyHash == [q \in {} |-> 0]

VARIABLES
    db,       \* the redis data set: hash (CHI_{S,L}{4,6}_<ih>), ihSet (CHI_I),
              \* count (CHI_C_S, CHI_C_L), downloads (CHI_D)
    clock,    \* timecache.NowUnixNano()
    nops,     \* operations performed so far
    last,     \* the operation performed last, with its arguments and results
    logic,    \* the frontend's Logic: preHooks and postHooks
    tasks,    \* the goroutines started for AfterAnnounce / AfterScrape, not yet run
    closing,  \* Close has closed f.closing and cancelled the frontend's context
    ndg,      \* datagrams handled so far
    sent,     \* the frames written to clients so far, each with the address
    udpFE,    \* the frontend's sockets, WaitGroup and goroutines, and where Close is
    ps        \* the store's closed channel, WaitGroup, client and goroutines

feFields == <<logic, tasks, closing, ndg, sent, udpFE>>

feVars == <<logic, tasks, closing, ndg, sent, udpFE, ps>>

vars == <<db, clock, nops, last, logic, tasks, closing, ndg, sent, udpFE, ps>>

\* HSET key field value
HSet(h, field, value) ==
    [q \in DOMAIN h \cup {field} |-> IF q = field THEN value ELSE h[q]]

\* HDEL key fields...
HDel(h, fields) == [q \in DOMAIN h \ fields |-> h[q]]

HLen(h) == Cardinality(DOMAIN h)

\* putPeer: MULTI; HSET infoHashKey peerID now; INCR peerCountKey;
\* SADD CHI_I infoHashKey; EXEC
putPeer(d, infoHashKey, peerCountKey, peerID, now) ==
    [db |-> [d EXCEPT !.hash[infoHashKey] = HSet(@, peerID, now),
                      !.count[peerCountKey] = @ + 1,
                      !.ihSet = @ \cup {infoHashKey}],
     err |-> Nil]

\* delPeer as it would be if the reply of HDEL were not looked at
delPeerAlwaysDecr(d, infoHashKey, peerCountKey, peerID) ==
    [db |-> [d EXCEPT !.hash[infoHashKey] = HDel(@, {peerID}),
                      !.count[peerCountKey] = @ - 1],
     err |-> Nil]

\* delPeer: HDEL infoHashKey peerID; DECR peerCountKey when a field was deleted
delPeer(d, infoHashKey, peerCountKey, peerID) ==
    IF peerID \in DOMAIN d.hash[infoHashKey]
    THEN [db |-> [d EXCEPT !.hash[infoHashKey] = HDel(@, {peerID}),
                           !.count[peerCountKey] = @ - 1],
          err |-> Nil]
    ELSE [db |-> d, err |-> ErrResourceDoesNotExist]

PutSeeder(d, ih, peer, now) ==
    putPeer(d, InfoHashKey(ih, TRUE, Is6(peer)), CountSeederKey, peer, now)

DeleteSeeder(d, ih, peer) ==
    delPeer(d, InfoHashKey(ih, TRUE, Is6(peer)), CountSeederKey, peer)

PutLeecher(d, ih, peer, now) ==
    putPeer(d, InfoHashKey(ih, FALSE, Is6(peer)), CountLeecherKey, peer, now)

DeleteLeecher(d, ih, peer) ==
    delPeer(d, InfoHashKey(ih, FALSE, Is6(peer)), CountLeecherKey, peer)

\* The reply of a command queued on a redis.Pipeliner, read inside the
\* TxPipelined callback: the command is only sent at EXEC, after the callback
\* returned, so the IntCmd still holds its zero value and a nil error.
QueuedIntReply(executed) == 0

\* GraduateLeecher: one MULTI/EXEC of HDEL leecherKey peerID, HSET seederKey
\* peerID now, INCR CHI_C_S, SADD CHI_I seederKey, HINCRBY CHI_D infoHash 1;
\* DECR CHI_C_L is queued only when the reply read for HDEL is positive.
GraduateLeecher(d, ih, peer, now) ==
    LET ihSeederKey == InfoHashKey(ih, TRUE, Is6(peer))
        ihLeecherKey == InfoHashKey(ih, FALSE, Is6(peer))
        deleted == QueuedIntReply(IF peer \in DOMAIN d.hash[ihLeecherKey] THEN 1 ELSE 0)
    IN  [db |-> [d EXCEPT !.hash = [@ EXCEPT ![ihLeecherKey] = HDel(@, {peer}),
                                             ![ihSeederKey] = HSet(@, peer, now)],
                          !.count = [@ EXCEPT ![CountLeecherKey] =
                                                 IF deleted > 0 THEN @ - 1 ELSE @,
                                              ![CountSeederKey] = @ + 1],
                          !.ihSet = @ \cup {ihSeederKey},
                          !.downloads[ih] = @ + 1],
         err |-> Nil]

(***************************************************************************)
(* Reads: AnnouncePeers (HRANDFIELD) and ScrapeSwarm (HLEN, HGET)          *)
(***************************************************************************)
Min(a, b) == IF a < b THEN a ELSE b

\* the sequences of k distinct elements of S
SeqsNoRep(S, k) ==
    {s \in [1..k -> S] : \A i, j \in 1..k : i # j => s[i] # s[j]}

\* HRANDFIELD key count: for count >= 0 up to count distinct fields, in any
\* order; for count < 0 exactly -count fields, repetitions allowed (none of an
\* empty hash)
HRandField(h, count) ==
    IF count >= 0 THEN SeqsNoRep(DOMAIN h, Min(count, HLen(h)))
    ELSE IF DOMAIN h = {} THEN {<<>>}
    ELSE [1..(0 - count) -> DOMAIN h]

\* the error GetPeers returns with `out` when no redis command failed
getPeersErr(out) == IF Len(out) = 0 THEN ErrResourceDoesNotExist ELSE Nil

\* GetPeers as it would be if the seeder flag of the keys were inverted
GetPeersInverted(d, ih, forSeeder, maxCount, isV6) ==
    IF forSeeder
    THEN {[out |-> peers, err |-> getPeersErr(peers)] :
            peers \in HRandField(d.hash[InfoHashKey(ih, TRUE, isV6)], maxCount)}
    ELSE UNION {
            IF maxCount - Len(leechers) <= 0
            THEN {[out |-> leechers, err |-> getPeersErr(leechers)]}
            ELSE {[out |-> leechers \o seeders, err |-> getPeersErr(leechers \o seeders)] :
                    seeders \in HRandField(d.hash[InfoHashKey(ih, TRUE, isV6)],
                                           maxCount - Len(leechers))}
            : leechers \in HRandField(d.hash[InfoHashKey(ih, FALSE, isV6)], maxCount)}

\* GetPeers: every result [out, err] the random draws allow.  For a seeder
\* only the leecher hash is read; otherwise the seeder hash and, while
\* maxCount is not used up, the leecher hash.
GetPeers(d, ih, forSeeder, maxCount, isV6) ==
    IF forSeeder
    THEN {[out |-> peers, err |-> getPeersErr(peers)] :
            peers \in HRandField(d.hash[InfoHashKey(ih, FALSE, isV6)], maxCount)}
    ELSE UNION {
            IF maxCount - Len(seeders) <= 0
            THEN {[out |-> seeders, err |-> getPeersErr(seeders)]}
            ELSE {[out |-> seeders \o leechers, err |-> getPeersErr(seeders \o leechers)] :
                    leechers \in HRandField(d.hash[InfoHashKey(ih, FALSE, isV6)],
                                            maxCount - Len(seeders))}
            : seeders \in HRandField(d.hash[InfoHashKey(ih, TRUE, isV6)], maxCount)}

AnnouncePeers(d, ih, forSeeder, numWant, v6) == GetPeers(d, ih, forSeeder, numWant, v6)

\* countPeers with HLEN
countPeers(d, infoHashKey) == HLen(d.hash[infoHashKey])

\* ScrapeIH: (leechersCount, seedersCount, downloadsCount)
ScrapeIH(d, ih) ==
    [leechers |-> countPeers(d, InfoHashKey(ih, FALSE, FALSE))
                    + countPeers(d, InfoHashKey(ih, FALSE, TRUE)),
     seeders |-> countPeers(d, InfoHashKey(ih, TRUE, FALSE))
                    + countPeers(d, InfoHashKey(ih, TRUE, TRUE)),
     snatched |-> d.downloads[ih]]

ScrapeSwarm(d, ih) == ScrapeIH(d, ih)

(***************************************************************************)
(* Garbage collection                                                      *)
(***************************************************************************)
IsSeederKey(infoHashKey) == infoHashKey[1] \in {IH4SeederKey, IH6SeederKey}

IsLeecherKey(infoHashKey) == infoHashKey[1] \in {IH4LeecherKey, IH6LeecherKey}

\* peersToRemove as it would be if the comparison were mtime < cutoffNanos
peersToRemoveBefore(h, cutoffNanos) == {q \in DOMAIN h : h[q] < cutoffNanos}

\* the fields gc collects from one hash: mtime <= cutoffNanos
peersToRemove(h, cutoffNanos) == {q \in DOMAIN h : h[q] <= cutoffNanos}

\* gcRemoved as it would be if the counters were not decremented
gcRemovedNone(d, cutoffNanos, seeder) == {}

\* the (key, peer) pairs one gc run removes from the hashes listed in CHI_I
\* whose keys are seeder keys (seeder) or leecher keys (~seeder)
gcRemoved(d, cutoffNanos, seeder) ==
    {kp \in d.ihSet \X Peers :
        /\ IF seeder THEN IsSeederKey(kp[1]) ELSE IsLeecherKey(kp[1])
        /\ kp[2] \in peersToRemove(d.hash[kp[1]], cutoffNanos)}

\* gc: for every key of CHI_I, HDEL the expired fields, DECRBY the matching
\* counter by the number removed, and SREM the key from CHI_I when its hash
\* is empty
gc(d, cutoffNanos) ==
    LET hashAfter == [k \in InfoHashKeys |->
                        IF k \in d.ihSet
                        THEN HDel(d.hash[k], peersToRemove(d.hash[k], cutoffNanos))
                        ELSE d.hash[k]]
    IN  [hash |-> hashAfter,
         ihSet |-> {k \in d.ihSet : HLen(hashAfter[k]) # 0},
         count |-> [c \in {CountSeederKey, CountLeecherKey} |->
                      d.count[c] - Cardinality(
                          IF c = CountSeederKey
                          THEN gcRemoved(d, cutoffNanos, TRUE)
                          ELSE gcRemoved(d, cutoffNanos, FALSE))],
         downloads |-> d.downloads]

(***************************************************************************)
(* Requests, contexts and hooks (package middleware)                       *)
(***************************************************************************)
\* bittorrent events
None == "none"
Completed == "completed"
Started == "started"
Stopped == "stopped"
Events == {None, Completed, Started, Stopped}

\* AnnounceRequest.Peers(): the request's peer ID with each of its addresses,
\* the first address being GetFirst()
RequestPeers == {<<p>> : p \in Peers} \cup {s \in Peers \X Peers : s[1] # s[2]}

\* a parsed AnnounceRequest
AnnounceRequests ==
    [ih : InfoHashes, peers : RequestPeers, event : Events, left : 0..1, numWant : 0..MaxWant]

\* a parsed ScrapeRequest: its InfoHashes
ScrapeRequests == [infoHashes : {<<ih>> : ih \in InfoHashes}
                                  \cup {<<ih, jh>> : ih \in InfoHashes, jh \in InfoHashes}]

\* context keys
RouteParamsKey == "RouteParamsKey"
SkipSwarmInteractionKey == "SkipSwarmInteractionKey"
SkipResponseHookKey == "SkipResponseHookKey"

\* A context: the keys that carry a non-nil value, and whether it is cancelled
\* (Err() # nil).
Background == [vals |-> {}, done |-> FALSE, cancel |-> "none"]

WithValue(ctx, key) == [ctx EXCEPT !.vals = @ \cup {key}]

\* errors a hook may return
ErrTorrentUnapproved == "unapproved"
ErrHookFailed == "hook failed"

\* an error of the peer store that is no ErrResourceDoesNotExist
ErrStorage == "storage failure"
Canceled == "context canceled"

\* The caller-supplied hooks: each kind is one behaviour of the Hook interface.
\*   pass          returns (ctx, nil)
\*   skipSwarm     returns ctx with a value under SkipSwarmInteractionKey
\*   skipResponse  returns ctx with a value under SkipResponseHookKey
\*   unapproved    returns the client error ErrTorrentUnapproved
\*   fail          returns an internal error
\*   cancel        returns context.Canceled
HookKinds == {"pass", "skipSwarm", "skipResponse", "unapproved", "fail", "cancel"}

\* Hook.HandleAnnounce / Hook.HandleScrape of a caller-supplied hook
userHook(kind, ctx) ==
    CASE kind = "pass" -> [ctx |-> ctx, err |-> Nil]
      [] kind = "skipSwarm" -> [ctx |-> WithValue(ctx, SkipSwarmInteractionKey), err |-> Nil]
      [] kind = "skipResponse" -> [ctx |-> WithValue(ctx, SkipResponseHookKey), err |-> Nil]
      [] kind = "unapproved" -> [ctx |-> ctx, err |-> ErrTorrentUnapproved]
      [] kind = "fail" -> [ctx |-> ctx, err |-> ErrHookFailed]
      [] kind = "cancel" -> [ctx |-> ctx, err |-> Canceled]

(***************************************************************************)
(* swarmInteractionHook                                                    *)
(***************************************************************************)
\* storeFnName as it would be if the left = 0 case came before the Completed
\* case
storeFnNameLeftFirst(req) ==
    IF req.event = Stopped THEN "Delete"
    ELSE IF req.left = 0 THEN "PutSeeder"
    ELSE IF req.event = Completed THEN "GraduateLeecher"
    ELSE "PutLeecher"

\* the store function the hook chooses for a request
storeFnName(req) ==
    IF req.event = Stopped THEN "Delete"
    ELSE IF req.event = Completed THEN "GraduateLeecher"
    ELSE IF req.left = 0 THEN "PutSeeder"
    ELSE "PutLeecher"

\* the store operations storeFn(hash, peer) performs, in order
storeFnCalls(fn, hash, peer) ==
    IF fn = "Delete"
    THEN <<[fn |-> "DeleteSeeder", ih |-> hash, peer |-> peer],
           [fn |-> "DeleteLeecher", ih |-> hash, peer |-> peer]>>
    ELSE <<[fn |-> fn, ih |-> hash, peer |-> peer]>>

\* a store operation's result with the store operations performed
withCalls(r, calls) == [db |-> r.db, err |-> r.err, calls |-> calls]

\* "err != nil && !errors.Is(err, storage.ErrResourceDoesNotExist)"
failed(r) == r.err # Nil /\ r.err # ErrResourceDoesNotExist

\* the result of the Stopped storeFn, which returns nil unless an operation
\* failed
stoppedResult(r) == IF failed(r) THEN r ELSE [r EXCEPT !.err = Nil]

\* the store operation `call` on d: r, unless the backend fails it (fail: the
\* operations redis answers with an error)
storeOp(r, call, d, fail) ==
    IF call \in fail THEN [db |-> d, err |-> ErrStorage] ELSE r

\* stoppedThen as it would be if ErrResourceDoesNotExist of DeleteSeeder ended
\* the function
stoppedThenNotFoundEnds(r1, hash, peer, fail) ==
    IF r1.err # Nil
    THEN withCalls(r1, SubSeq(storeFnCalls("Delete", hash, peer), 1, 1))
    ELSE withCalls(stoppedResult(storeOp(DeleteLeecher(r1.db, hash, peer),
                                         storeFnCalls("Delete", hash, peer)[2], r1.db, fail)),
                   storeFnCalls("Delete", hash, peer))

\* the Stopped storeFn after DeleteSeeder left r1: DeleteLeecher unless r1 is
\* a failure
stoppedThen(r1, hash, peer, fail) ==
    IF failed(r1)
    THEN withCalls(r1, SubSeq(storeFnCalls("Delete", hash, peer), 1, 1))
    ELSE withCalls(stoppedResult(storeOp(DeleteLeecher(r1.db, hash, peer),
                                         storeFnCalls("Delete", hash, peer)[2], r1.db, fail)),
                   storeFnCalls("Delete", hash, peer))

\* storeFn(hash, peer) on the data set: for Stopped DeleteSeeder then
\* DeleteLeecher, ErrResourceDoesNotExist of either being no error
storeFn(fn, d, hash, peer, now, fail) ==
    CASE fn = "Delete" ->
            stoppedThen(storeOp(DeleteSeeder(d, hash, peer),
                                storeFnCalls("Delete", hash, peer)[1], d, fail),
                        hash, peer, fail)
      [] fn = "GraduateLeecher" ->
            withCalls(storeOp(GraduateLeecher(d, hash, peer, now),
                              storeFnCalls(fn, hash, peer)[1], d, fail),
                      storeFnCalls(fn, hash, peer))
      [] fn = "PutSeeder" ->
            withCalls(storeOp(PutSeeder(d, hash, peer, now),
                              storeFnCalls(fn, hash, peer)[1], d, fail),
                      storeFnCalls(fn, hash, peer))
      [] fn = "PutLeecher" ->
            withCalls(storeOp(PutLeecher(d, hash, peer, now),
                              storeFnCalls(fn, hash, peer)[1], d, fail),
                      storeFnCalls(fn, hash, peer))

\* t with the store operations `calls` before its own
afterCalls(calls, t) == [t EXCEPT !.calls = calls \o @]

\* r1 being what storeFn left for the infohash: for a v2 infohash and no
\* error, storeFn on its v1 truncation
mirrored(fn, ih, peer, now, r1, fail) ==
    IF r1.err = Nil /\ ih.len = InfoHashV2Len
    THEN afterCalls(r1.calls, storeFn(fn, r1.db, TruncateV1(ih), peer, now, fail))
    ELSE r1

\* the loop over req.Peers(): storeFn on the infohash and its mirror for each
\* peer; the first error ends the loop (interactRest: r is what the peer at
\* the head left)
RECURSIVE interactPeers(_, _, _, _, _, _, _)
RECURSIVE interactRest(_, _, _, _, _, _)
interactPeers(fn, d, ih, peers, now, calls, fail) ==
    IF peers = <<>> THEN [db |-> d, err |-> Nil, calls |-> calls]
    ELSE interactRest(fn, ih, peers, now,
                      afterCalls(calls, mirrored(fn, ih, Head(peers), now,
                                                 storeFn(fn, d, ih, Head(peers), now, fail),
                                                 fail)),
                      fail)

interactRest(fn, ih, peers, now, r, fail) ==
    IF r.err # Nil THEN r
    ELSE interactPeers(fn, r.db, ih, Tail(peers), now, r.calls, fail)

\* what a post-hook returns: the context it was given, with r's effects
hookResult(ctx, r) == [db |-> r.db, ctx |-> ctx, err |-> r.err, calls |-> r.calls]

\* swarmInteractionHook.HandleAnnounce: nothing when the context carries a
\* value under SkipSwarmInteractionKey
swarmInteractionHook(d, ctx, req, now, fail) ==
    IF SkipSwarmInteractionKey \in ctx.vals
    THEN [db |-> d, ctx |-> ctx, err |-> Nil, calls |-> <<>>]
    ELSE hookResult(ctx, interactPeers(storeFnName(req), d, req.ih, req.peers, now, <<>>,
                                       fail))

(***************************************************************************)
(* responseHook                                                            *)
(***************************************************************************)
\* scrape as it would be if the v1 truncation were not read
scrapeOwnOnly(d, ih) == ScrapeSwarm(d, ih)

\* responseHook.scrape: the counts of ih, for a v2 infohash with those of its
\* v1 truncation added
scrape(d, ih) ==
    LET a == ScrapeSwarm(d, ih)
        b == ScrapeSwarm(d, TruncateV1(ih))
    IN  IF ih.len = InfoHashV2Len
        THEN [leechers |-> a.leechers + b.leechers, seeders |-> a.seeders + b.seeders,
              snatched |-> a.snatched + b.snatched]
        ELSE a

\* fetchArgs as it would be with the other family asked first
fetchArgsOtherFirst(req) ==
    LET v6First == ~Is6(Head(req.peers))
        own == <<[ih |-> req.ih, v6 |-> v6First], [ih |-> req.ih, v6 |-> ~v6First]>>
    IN  IF req.ih.len = InfoHashV2Len
        THEN own \o <<[ih |-> TruncateV1(req.ih), v6 |-> v6First],
                      [ih |-> TruncateV1(req.ih), v6 |-> ~v6First]>>
        ELSE own

\* the fetchArgs of appendPeers
fetchArgs(req) ==
    LET v6First == Is6(Head(req.peers))
        own == <<[ih |-> req.ih, v6 |-> v6First], [ih |-> req.ih, v6 |-> ~v6First]>>
    IN  IF req.ih.len = InfoHashV2Len
        THEN own \o <<[ih |-> TruncateV1(req.ih), v6 |-> v6First],
                      [ih |-> TruncateV1(req.ih), v6 |-> ~v6First]>>
        ELSE own

\* the loop over args: every [peers, asked] the store's draws allow, asked
\* being the AnnouncePeers calls made.  ErrResourceDoesNotExist is no error.
RECURSIVE fetchPeers(_, _, _, _, _, _)
fetchPeers(d, args, seeding, maxPeers, peers, asked) ==
    IF args = <<>> \/ maxPeers <= 0 THEN {[peers |-> peers, asked |-> asked]}
    ELSE UNION {fetchPeers(d, Tail(args), seeding, maxPeers - Len(r.out), peers \o r.out,
                           Append(asked, [ih |-> Head(args).ih, forSeeder |-> seeding,
                                          numWant |-> maxPeers, v6 |-> Head(args).v6,
                                          got |-> Len(r.out)]))
                : r \in AnnouncePeers(d, Head(args).ih, seeding, maxPeers, Head(args).v6)}

\* the peers of `peers` appended to resp.IPv6Peers (v6) or resp.IPv4Peers: each
\* peer once, in order; a peer whose address is neither kind is dropped
RECURSIVE uniquePeers(_, _, _)

\* uniquePeers as it would be without the map of the peers seen and without
\* the test for an IPv4 address
uniquePeersEvery(peers, v6, seen) ==
    IF peers = <<>> THEN <<>>
    ELSE (IF Is6(Head(peers)) = v6 THEN <<Head(peers)>> ELSE <<>>)
         \o uniquePeers(Tail(peers), v6, seen)

uniquePeers(peers, v6, seen) ==
    IF peers = <<>> THEN <<>>
    ELSE LET p == Head(peers)
             valid == Is6(p) \/ Is4(p)
             mine == IF v6 THEN Is6(p) ELSE (~Is6(p) /\ Is4(p))
             seen2 == IF valid THEN seen \cup {p} ELSE seen
         IN  IF p \notin seen /\ mine
             THEN <<p>> \o uniquePeers(Tail(peers), v6, seen2)
             ELSE uniquePeers(Tail(peers), v6, seen2)

\* ownPeers as it would be if the caller's own peers were never appended
ownPeersNever(peers, req) == peers

\* "Some clients expect a minimum of their own peer representation returned
\* to them if they are the only peer in a swarm."
ownPeers(peers, req) == IF Len(peers) = 0 THEN req.peers ELSE peers

\* responseHook.appendPeers: every [resp, asked] the store's draws allow
appendPeers(d, req, resp) ==
    LET seeding == req.left = 0
        v6First == Is6(Head(req.peers))
        given == IF v6First THEN resp.ipv6Peers \o resp.ipv4Peers
                 ELSE resp.ipv4Peers \o resp.ipv6Peers
        peers0 == IF Len(given) > req.numWant THEN SubSeq(given, 1, req.numWant) ELSE given
        maxPeers == IF Len(given) > req.numWant THEN 0 ELSE req.numWant - Len(given)
    IN  {LET alone == Len(f.peers) = 0
             peers == ownPeers(f.peers, req)
         IN  [resp |-> [resp EXCEPT !.complete = IF alone /\ seeding THEN @ + 1 ELSE @,
                                    !.incomplete = IF alone /\ ~seeding THEN @ + 1 ELSE @,
                                    !.ipv4Peers = uniquePeers(peers, FALSE, {}),
                                    !.ipv6Peers = uniquePeers(peers, TRUE, {})],
              asked |-> f.asked]
         : f \in fetchPeers(d, fetchArgs(req), seeding, maxPeers, peers0, <<>>)}

\* responseHook.HandleAnnounce: every [resp, err, asked] it may leave
responseHookAnnounce(d, ctx, req, resp) ==
    IF SkipResponseHookKey \in ctx.vals THEN {[resp |-> resp, err |-> Nil, asked |-> <<>>]}
    ELSE {[resp |-> r.resp, err |-> Nil, asked |-> r.asked] :
            r \in appendPeers(d, req, [resp EXCEPT !.incomplete = scrape(d, req.ih).leechers,
                                                   !.complete = scrape(d, req.ih).seeders])}

\* the Scrapes the loop of HandleScrape appends for infoHashes
scrapedFiles(d, infoHashes) ==
    [i \in 1..Len(infoHashes) |->
        [infoHash |-> infoHashes[i],
         incomplete |-> scrape(d, infoHashes[i]).leechers,
         complete |-> scrape(d, infoHashes[i]).seeders,
         snatches |-> scrape(d, infoHashes[i]).snatched]]

\* scrapeErr as it would be if the error of h.scrape were not looked at
scrapeErrIgnored(req, fail) == Nil

\* the error the loop of HandleScrape ends with: that of h.scrape for the
\* fail-th infohash of the request (fail = 0: the store fails for none)
scrapeErr(req, fail) == IF fail \in 1..Len(req.infoHashes) THEN ErrStorage ELSE Nil

\* responseHook.HandleScrape: one Scrape per requested infohash, in order,
\* up to the first for which h.scrape returns an error
responseHookScrape(d, ctx, req, resp, fail) ==
    IF SkipResponseHookKey \in ctx.vals THEN [resp |-> resp, err |-> Nil]
    ELSE IF scrapeErr(req, fail) # Nil
    THEN [resp |-> [resp EXCEPT !.files =
                        @ \o scrapedFiles(d, SubSeq(req.infoHashes, 1, fail - 1))],
          err |-> scrapeErr(req, fail)]
    ELSE [resp |-> [resp EXCEPT !.files = @ \o scrapedFiles(d, req.infoHashes)],
          err |-> Nil]

(***************************************************************************)
(* Logic                                                                   *)
(***************************************************************************)
AnnounceInterval == 1800

ResponseHook == "responseHook"
SwarmInteractionHook == "swarmInteractionHook"

\* withSwarmInteraction as it would be if the swarm-interaction hook were
\* put before the caller's post-hooks
withSwarmInteractionFirst(post) == <<SwarmInteractionHook>> \o post

\* "postHooks: append(postHooks, &swarmInteractionHook{store: peerStore})"
withSwarmInteraction(post) == Append(post, SwarmInteractionHook)

\* NewLogic as it would be if the response hook were put before the caller's
\* pre-hooks
NewLogicResponseFirst(pre, post) ==
    [announceInterval |-> AnnounceInterval,
     preHooks |-> <<ResponseHook>> \o pre,
     postHooks |-> withSwarmInteraction(post)]

\* NewLogic: the response hook is appended to the pre-hooks, the
\* swarm-interaction hook to the post-hooks
NewLogic(pre, post) ==
    [announceInterval |-> AnnounceInterval,
     preHooks |-> Append(pre, ResponseHook),
     postHooks |-> withSwarmInteraction(post)]

\* what Logic.HandleAnnounce and HandleScrape return with an error
NilCtx == [nil |-> TRUE]
NilResp == [nil |-> TRUE]

\* h.HandleAnnounce of a pre-hook: every [ctx, resp, err, asked]
preHookAnnounce(h, d, ctx, req, resp) ==
    IF h = ResponseHook
    THEN {[ctx |-> ctx, resp |-> r.resp, err |-> r.err, asked |-> r.asked] :
            r \in responseHookAnnounce(d, ctx, req, resp)}
    ELSE {[ctx |-> userHook(h, ctx).ctx, resp |-> resp, err |-> userHook(h, ctx).err,
           asked |-> <<>>]}

\* the loop of Logic.HandleAnnounce over l.preHooks: each hook gets the context
\* the previous one returned; the first error ends the loop.  calls lists the
\* hooks run, each with the context it received (ctx) and what it returned
\* (out, err).
RECURSIVE runPreAnnounce(_, _, _, _, _, _, _)
runPreAnnounce(hooks, d, ctx, req, resp, calls, asked) ==
    IF hooks = <<>>
    THEN {[ctx |-> ctx, resp |-> resp, err |-> Nil, calls |-> calls, asked |-> asked]}
    ELSE UNION {
            IF r.err # Nil
            THEN {[ctx |-> NilCtx, resp |-> NilResp, err |-> r.err,
                   calls |-> Append(calls, [hook |-> Head(hooks), ctx |-> ctx, out |-> r.ctx, err |-> r.err]),
                   asked |-> asked \o r.asked]}
            ELSE runPreAnnounce(Tail(hooks), d, r.ctx, req, r.resp,
                                Append(calls, [hook |-> Head(hooks), ctx |-> ctx, out |-> r.ctx, err |-> r.err]),
                                asked \o r.asked)
            : r \in preHookAnnounce(Head(hooks), d, ctx, req, resp)}

\* Logic.HandleAnnounce
HandleAnnounce(l, d, ctx, req) ==
    runPreAnnounce(l.preHooks, d, ctx, req,
                   [interval |-> l.announceInterval, incomplete |-> 0, complete |-> 0,
                    ipv4Peers |-> <<>>, ipv6Peers |-> <<>>],
                   <<>>, <<>>)

\* h.HandleScrape of a pre-hook
preHookScrape(h, d, ctx, req, resp, fail) ==
    IF h = ResponseHook
    THEN [ctx |-> ctx, resp |-> responseHookScrape(d, ctx, req, resp, fail).resp,
          err |-> responseHookScrape(d, ctx, req, resp, fail).err]
    ELSE [ctx |-> userHook(h, ctx).ctx, resp |-> resp, err |-> userHook(h, ctx).err]

RECURSIVE runPreScrape(_, _, _, _, _, _, _)
runPreScrape(hooks, d, ctx, req, resp, calls, fail) ==
    IF hooks = <<>> THEN [ctx |-> ctx, resp |-> resp, err |-> Nil, calls |-> calls]
    ELSE LET r == preHookScrape(Head(hooks), d, ctx, req, resp, fail)
             calls2 == Append(calls, [hook |-> Head(hooks), ctx |-> ctx, out |-> r.ctx, err |-> r.err])
         IN  IF r.err # Nil
             THEN [ctx |-> NilCtx, resp |-> NilResp, err |-> r.err, calls |-> calls2]
             ELSE runPreScrape(Tail(hooks), d, r.ctx, req, r.resp, calls2, fail)

\* Logic.HandleScrape
HandleScrape(l, d, ctx, req, fail) ==
    runPreScrape(l.preHooks, d, ctx, req, [files |-> <<>>], <<>>, fail)

\* a caller's hook as a post-hook of an announce: u is what it returned
userPostHook(d, u) == [db |-> d, ctx |-> u.ctx, err |-> u.err, calls |-> <<>>]

\* h.HandleAnnounce of a post-hook
postHookAnnounce(h, d, ctx, req, now) ==
    IF h = SwarmInteractionHook THEN swarmInteractionHook(d, ctx, req, now, {})
    ELSE userPostHook(d, userHook(h, ctx))

\* the record of a hook that was run: the context it received and what it
\* returned
hookCall(h, ctx, r) == [hook |-> h, ctx |-> ctx, out |-> r.ctx, err |-> r.err]

RECURSIVE AfterAnnounceFrom(_, _, _, _, _, _, _)
RECURSIVE afterAnnounceHook(_, _, _, _, _, _, _)

\* afterAnnounceHook as it would be if the loop went on after logging an error
afterAnnounceHookContinue(hooks, ctx, req, now, calls, storeCalls, r) ==
    AfterAnnounceFrom(Tail(hooks), r.db, r.ctx, req, now,
                      Append(calls, hookCall(Head(hooks), ctx, r)), storeCalls \o r.calls)

\* Logic.AfterAnnounce: the loop over l.postHooks; an error is logged and the
\* function returns (afterAnnounceHook: r is what the hook at the head
\* returned).  calls lists the hooks run, storeCalls the store operations
\* performed, logged the error logged (Nil when none).
AfterAnnounceFrom(hooks, d, ctx, req, now, calls, storeCalls) ==
    IF hooks = <<>>
    THEN [db |-> d, calls |-> calls, storeCalls |-> storeCalls, logged |-> Nil]
    ELSE afterAnnounceHook(hooks, ctx, req, now, calls, storeCalls,
                           postHookAnnounce(Head(hooks), d, ctx, req, now))

afterAnnounceHook(hooks, ctx, req, now, calls, storeCalls, r) ==
    IF r.err # Nil
    THEN [db |-> r.db, calls |-> Append(calls, hookCall(Head(hooks), ctx, r)),
          storeCalls |-> storeCalls \o r.calls, logged |-> r.err]
    ELSE AfterAnnounceFrom(Tail(hooks), r.db, r.ctx, req, now,
                           Append(calls, hookCall(Head(hooks), ctx, r)),
                           storeCalls \o r.calls)

AfterAnnounce(l, d, ctx, req, now) ==
    AfterAnnounceFrom(l.postHooks, d, ctx, req, now, <<>>, <<>>)

\* h.HandleScrape of a post-hook: the swarm-interaction hook does nothing
postHookScrape(h, ctx) ==
    IF h = SwarmInteractionHook THEN [ctx |-> ctx, err |-> Nil]
    ELSE userHook(h, ctx)

\* Logic.AfterScrape: as AfterAnnounce
RECURSIVE AfterScrapeFrom(_, _, _)
RECURSIVE afterScrapeHook(_, _, _, _)
AfterScrapeFrom(hooks, ctx, calls) ==
    IF hooks = <<>> THEN [calls |-> calls, logged |-> Nil]
    ELSE afterScrapeHook(hooks, ctx, calls, postHookScrape(Head(hooks), ctx))

afterScrapeHook(hooks, ctx, calls, r) ==
    IF r.err # Nil
    THEN [calls |-> Append(calls, hookCall(Head(hooks), ctx, r)), logged |-> r.err]
    ELSE AfterScrapeFrom(Tail(hooks), r.ctx, Append(calls, hookCall(Head(hooks), ctx, r)))

AfterScrape(l, ctx) == AfterScrapeFrom(l.postHooks, ctx, <<>>)

(***************************************************************************)
(* The UDP frontend (package udp)                                          *)
(***************************************************************************)
connectActionID == 0
announceActionID == 1
scrapeActionID == 2
errorActionID == 3
announceV6ActionID == 4
\* an action ID the protocol does not define
unknownActionID == 5

ActionIDs == {connectActionID, announceActionID, scrapeActionID, announceV6ActionID,
              unknownActionID}

\* transaction IDs are 1..NTx
NTx == 2

\* source addresses of datagrams are 1..NIPs
NIPs == 2

\* Config.MaxClockSkew, in ticks of the clock
MaxClockSkew == 1

\* The HMAC, under the frontend's private key, of a timestamp and an address,
\* truncated to 4 bytes: a number, different for different inputs.
hmac(ts, ip) == ts * NIPs + ip

\* a MAC that was not made with the frontend's private key
forgedMAC == 0

\* The first 8 bytes of a datagram, read as a connection ID: a timestamp and
\* a MAC.
ConnIDs == [ts : 0..MaxClock, mac : -1..((MaxClock + 1) * NIPs)]

\* the protocol's magic number: no MAC of the generator equals its last 4 bytes
initialConnectionID == [ts |-> 0, mac |-> -1]

Abs(x) == IF x < 0 THEN -x ELSE x

\* gen.Generate(r.IP, now)
Generate(ip, now) == [ts |-> now, mac |-> hmac(now, ip)]

\* gen.Validate(connID, r.IP, now)
Validate(connID, ip, now) ==
    /\ connID.mac = hmac(connID.ts, ip)
    /\ Abs(now - connID.ts) <= MaxClockSkew

errMalformedPacket == "malformed packet"
errBadConnectionID == "bad connection id"
errUnknownAction == "unknown action"

\* the errors that are a bittorrent.ClientError
ClientErrors == {errMalformedPacket, errBadConnectionID, errUnknownAction, ErrTorrentUnapproved}

Malformed == [malformed |-> TRUE]

\* A datagram: whether it has at least 16 bytes, its header, and what the
\* parser makes of the rest: an announce, a scrape, or neither
Datagrams ==
    [long : BOOLEAN, ip : 1..NIPs, connID : ConnIDs, actionID : ActionIDs, txID : 1..NTx,
     body : {Malformed} \cup AnnounceRequests \cup ScrapeRequests]

\* parseAnnounce and parseScrape: the request, or errMalformedPacket
parseAnnounce(pkt) ==
    IF pkt.body \in AnnounceRequests THEN [req |-> pkt.body, err |-> Nil]
    ELSE [req |-> Malformed, err |-> errMalformedPacket]

parseScrape(pkt) ==
    IF pkt.body \in ScrapeRequests THEN [req |-> pkt.body, err |-> Nil]
    ELSE [req |-> Malformed, err |-> errMalformedPacket]

\* the byte that ends the message of an error frame
NUL == 0

\* writeErrorResponse as it would be if every error were written verbatim
writeErrorResponseVerbatim(txID, err) ==
    [action |-> errorActionID, txID |-> txID, msg |-> err, end |-> NUL]

\* the frame writeErrorResponse writes: the header, the message, a NUL byte
writeErrorResponse(txID, err) ==
    [action |-> errorActionID, txID |-> txID,
     msg |-> IF err \in ClientErrors THEN err ELSE "internal error occurred: " \o err,
     end |-> NUL]

\* the frame writeAnnounceResponse writes
writeAnnounceResponse(txID, resp, v6Action, v6Peers) ==
    [action |-> IF v6Action THEN announceV6ActionID ELSE announceActionID, txID |-> txID,
     interval |-> resp.interval, incomplete |-> resp.incomplete, complete |-> resp.complete,
     peers |-> IF v6Peers THEN resp.ipv6Peers ELSE resp.ipv4Peers]

\* the frame writeScrapeResponse writes
writeScrapeResponse(txID, resp) ==
    [action |-> scrapeActionID, txID |-> txID,
     files |-> [i \in 1..Len(resp.files) |->
                  [complete |-> resp.files[i].complete, snatches |-> resp.files[i].snatches,
                   incomplete |-> resp.files[i].incomplete]]]

\* the frame writeConnectionID writes
writeConnectionID(txID, connID) ==
    [action |-> connectActionID, txID |-> txID, connID |-> connID]

InjectRouteParamsToContext(ctx) == WithValue(ctx, RouteParamsKey)

\* RemapRouteParamsToBgContext: a background context that carries the route
\* parameters of ctx and nothing else of it
RemapRouteParamsToBgContext(ctx) ==
    [vals |-> ctx.vals \cap {RouteParamsKey}, done |-> FALSE, cancel |-> "none"]

\* what handleRequest leaves when it calls no Logic: lerr and resp are what
\* the Logic returned, calls the pre-hooks it ran, asked the store reads
noLogic(actionName, err, wire) ==
    [actionName |-> actionName, err |-> err, wire |-> wire, spawn |-> <<>>,
     logic |-> "none", lerr |-> Nil, resp |-> NilResp, calls |-> <<>>, asked |-> <<>>,
     storeFail |-> 0]

\* postHookCtx as it would be if the goroutine were given the context of the
\* request
postHookCtxOfRequest(ctx) == ctx

\* the context handleRequest gives the goroutine of the post-hooks
postHookCtx(ctx) == RemapRouteParamsToBgContext(ctx)

\* ctxErr as it would be if the context were not looked at
ctxErrNever(ctx) == Nil

\* ctx.Err(): context.Canceled once the context is cancelled
ctxErr(ctx) == IF ctx.done THEN Canceled ELSE Nil

\* errorFrames as it would be if the error were written by the branch and,
\* after it returned, once more
errorFramesTwice(txID, err) ==
    IF err # Canceled
    THEN <<writeErrorResponse(txID, err), writeErrorResponse(txID, err)>>
    ELSE <<>>

\* errorFrames as it would be if context.Canceled were not told apart
errorFramesAlways(txID, err) == <<writeErrorResponse(txID, err)>>

\* what the announce and scrape branches write for an error of the Logic
errorFrames(txID, err) ==
    IF err # Canceled THEN <<writeErrorResponse(txID, err)>> ELSE <<>>

\* the announce branch of handleRequest
handleAnnounce(l, d, ctx, pkt) ==
    LET p == parseAnnounce(pkt) IN
    IF p.err # Nil
    THEN {noLogic("announce", p.err, <<writeErrorResponse(pkt.txID, p.err)>>)}
    ELSE {[actionName |-> "announce",
           err |-> IF r.err # Nil THEN r.err ELSE ctxErr(r.ctx),
           wire |-> IF r.err # Nil THEN errorFrames(pkt.txID, r.err)
                    ELSE IF ctxErr(r.ctx) # Nil THEN <<>>
                    ELSE <<writeAnnounceResponse(pkt.txID, r.resp,
                                                 pkt.actionID = announceV6ActionID,
                                                 Is6(Head(p.req.peers)))>>,
           spawn |-> IF r.err = Nil /\ ctxErr(r.ctx) = Nil
                     THEN <<[kind |-> "announce", ctx |-> postHookCtx(r.ctx),
                             req |-> p.req]>>
                     ELSE <<>>,
           logic |-> "HandleAnnounce", lerr |-> r.err, resp |-> r.resp,
           calls |-> r.calls, asked |-> r.asked, storeFail |-> 0]
          : r \in HandleAnnounce(l, d, InjectRouteParamsToContext(ctx), p.req)}

\* For which infohash of a scrape the store may fail: for none (0), or for
\* any one of those the parser found.
storeFailures(pkt) ==
    IF pkt.body \in ScrapeRequests THEN 0..Len(pkt.body.infoHashes) ELSE {0}

\* the scrape branch of handleRequest
handleScrape(l, d, ctx, pkt, fail) ==
    LET p == parseScrape(pkt)
        r == HandleScrape(l, d, InjectRouteParamsToContext(ctx), p.req, fail)
    IN  IF p.err # Nil
        THEN noLogic("scrape", p.err, <<writeErrorResponse(pkt.txID, p.err)>>)
        ELSE [actionName |-> "scrape",
              err |-> IF r.err # Nil THEN r.err ELSE ctxErr(r.ctx),
              wire |-> IF r.err # Nil THEN errorFrames(pkt.txID, r.err)
                       ELSE IF ctxErr(r.ctx) # Nil THEN <<>>
                       ELSE <<writeScrapeResponse(pkt.txID, r.resp)>>,
              spawn |-> IF r.err = Nil /\ ctxErr(r.ctx) = Nil
                        THEN <<[kind |-> "scrape", ctx |-> postHookCtx(r.ctx),
                                req |-> p.req]>>
                        ELSE <<>>,
              logic |-> "HandleScrape", lerr |-> r.err, resp |-> r.resp,
              calls |-> r.calls, asked |-> <<>>, storeFail |-> fail]

\* tooShort as it would be if the length were not checked
tooShortNever(pkt) == FALSE

\* "no client packets are less than 16 bytes"
tooShort(pkt) == ~pkt.long

\* the default case as it would be if unknown actions were dropped silently
unknownActionSilent(txID) == noLogic("", errUnknownAction, <<>>)

\* the default case of the switch: an action ID that is none of the known ones
unknownAction(txID) ==
    noLogic("", errUnknownAction, <<writeErrorResponse(txID, errUnknownAction)>>)

\* badConnectionID as it would be if only announces were held to a valid
\* connection ID
badConnectionIDAnnounceOnly(pkt, now) ==
    pkt.actionID = announceActionID /\ ~Validate(pkt.connID, pkt.ip, now)

\* "this isn't requesting a new connection ID and the connection ID is invalid"
badConnectionID(pkt, now) ==
    pkt.actionID # connectActionID /\ ~Validate(pkt.connID, pkt.ip, now)

\* the connect case as it would be if every connect were answered
connectAnyConnID(pkt, now) ==
    noLogic("connect", Nil, <<writeConnectionID(pkt.txID, Generate(pkt.ip, now))>>)

\* the connect case of the switch
connect(pkt, now) ==
    IF pkt.connID # initialConnectionID THEN noLogic("connect", errMalformedPacket, <<>>)
    ELSE noLogic("connect", Nil, <<writeConnectionID(pkt.txID, Generate(pkt.ip, now))>>)

\* udpFE.handleRequest: every outcome [actionName, err, wire, spawn, ...]: the
\* frames written to the sender, the post-hook task started, the Logic method
\* called with the hooks it ran
handleRequest(l, d, ctx, pkt, now) ==
    IF tooShort(pkt) THEN {noLogic("", errMalformedPacket, <<>>)}
    ELSE IF badConnectionID(pkt, now)
    THEN {noLogic("", errBadConnectionID, <<writeErrorResponse(pkt.txID, errBadConnectionID)>>)}
    ELSE IF pkt.actionID = connectActionID
    THEN {connect(pkt, now)}
    ELSE IF pkt.actionID \in {announceActionID, announceV6ActionID}
    THEN handleAnnounce(l, d, ctx, pkt)
    ELSE IF pkt.actionID = scrapeActionID
    THEN {handleScrape(l, d, ctx, pkt, fail) : fail \in storeFailures(pkt)}
    ELSE {unknownAction(pkt.txID)}

(***************************************************************************)
(* Initial state and the store's operations as actions                     *)
(***************************************************************************)
\* cfg.Workers: the sockets of the frontend, one serve loop each
NSockets == 2

Sockets == 1..NSockets

\* the goroutines that call Close
NClosers == 2

Closers == 1..NClosers

\* The frontend as NewFrontend leaves it: every socket open and without
\* deadline, a serve loop per socket at its select, each counted by f.wg; no
\* handler goroutine; Close not called by anyone, its body never run.
NewFrontend ==
    [pc |-> "running", open |-> Sockets, deadline |-> {}, wg |-> NSockets,
     serve |-> [s \in Sockets |-> "select"], handlers |-> <<>>,
     close |-> [c \in Closers |-> "idle"], runs |-> 0]

\* no call of gc is under way: its position and its locals (cutoffNanos, the
\* infoHashKeys still to visit, the one visited, peersToRemove,
\* removedPeerCount)
NoSweep ==
    [pc |-> "idle", cutoff |-> 0, keys |-> {}, key |-> <<>>, peersToRemove |-> {},
     removedPeerCount |-> 0]

\* the store as newStore returns it: closed channel open, WaitGroup at zero,
\* client connected; no goroutine scheduled, Stop not called
NewStore ==
    [closed |-> FALSE, wg |-> 0, client |-> "open",
     gc |-> "none", gcTimer |-> FALSE, peerLifeTime |-> 0,
     stats |-> "none", statsTicker |-> FALSE,
     stop |-> "none", result |-> "none", sweep |-> NoSweep]

EmptyDB ==
    [hash |-> [k \in InfoHashKeys |-> EmptyHash],
     ihSet |-> {},
     count |-> [c \in {CountSeederKey, CountLeecherKey} |-> 0],
     downloads |-> [ih \in InfoHashes |-> 0]]

Init ==
    /\ db = EmptyDB
    /\ clock = 0
    /\ nops = 0
    /\ last = [op |-> "none"]
    /\ logic = NewLogic(<<>>, <<>>)
    /\ tasks = <<>>
    /\ closing = FALSE
    /\ ndg = 0
    /\ sent = {}
    /\ udpFE = NewFrontend
    /\ ps = NewStore

\* timecache advances
Tick ==
    /\ clock < MaxClock
    /\ clock' = clock + 1
    /\ UNCHANGED <<db, nops, last, feVars>>

CallPutSeeder ==
    \E ih \in InfoHashes, p \in Peers :
        LET r == PutSeeder(db, ih, p, clock) IN
        /\ nops < MaxOps
        /\ db' = r.db
        /\ last' = [op |-> "PutSeeder", ih |-> ih, peer |-> p, err |-> r.err]
        /\ nops' = nops + 1
        /\ UNCHANGED <<clock, feVars>>

CallPutLeecher ==
    \E ih \in InfoHashes, p \in Peers :
        LET r == PutLeecher(db, ih, p, clock) IN
        /\ nops < MaxOps
        /\ db' = r.db
        /\ last' = [op |-> "PutLeecher", ih |-> ih, peer |-> p, err |-> r.err]
        /\ nops' = nops + 1
        /\ UNCHANGED <<clock, feVars>>

CallDeleteSeeder ==
    \E ih \in InfoHashes, p \in Peers :
        LET r == DeleteSeeder(db, ih, p) IN
        /\ nops < MaxOps
        /\ db' = r.db
        /\ last' = [op |-> "DeleteSeeder", ih |-> ih, peer |-> p, err |-> r.err]
        /\ nops' = nops + 1
        /\ UNCHANGED <<clock, feVars>>

CallDeleteLeecher ==
    \E ih \in InfoHashes, p \in Peers :
        LET r == DeleteLeecher(db, ih, p) IN
        /\ nops < MaxOps
        /\ db' = r.db
        /\ last' = [op |-> "DeleteLeecher", ih |-> ih, peer |-> p, err |-> r.err]
        /\ nops' = nops + 1
        /\ UNCHANGED <<clock, feVars>>

CallGraduateLeecher ==
    \E ih \in InfoHashes, p \in Peers :
        LET r == GraduateLeecher(db, ih, p, clock) IN
        /\ nops < MaxOps
        /\ db' = r.db
        /\ last' = [op |-> "GraduateLeecher", ih |-> ih, peer |-> p, err |-> r.err]
        /\ nops' = nops + 1
        /\ UNCHANGED <<clock, feVars>>

CallAnnouncePeers ==
    \E ih \in InfoHashes, forSeeder \in BOOLEAN, numWant \in 0..MaxWant, v6 \in BOOLEAN :
        \E r \in AnnouncePeers(db, ih, forSeeder, numWant, v6) :
            /\ nops < MaxOps
            /\ last' = [op |-> "AnnouncePeers", ih |-> ih, forSeeder |-> forSeeder,
                        numWant |-> numWant, v6 |-> v6, peers |-> r.out, err |-> r.err]
            /\ nops' = nops + 1
            /\ UNCHANGED <<db, clock, feVars>>

CallScrapeSwarm ==
    \E ih \in InfoHashes :
        /\ nops < MaxOps
        /\ last' = [op |-> "ScrapeSwarm", ih |-> ih, result |-> ScrapeSwarm(db, ih)]
        /\ nops' = nops + 1
        /\ UNCHANGED <<db, clock, feVars>>

\* one round of the ScheduleGC loop: gc(now - peerLifeTime)
RunGC ==
    \E peerLifeTime \in 0..MaxLifetime :
        /\ nops < MaxOps
        /\ db' = gc(db, clock - peerLifeTime)
        /\ last' = [op |-> "gc", cutoff |-> clock - peerLifeTime,
                    removed |-> Cardinality(gcRemoved(db, clock - peerLifeTime, TRUE))
                                + Cardinality(gcRemoved(db, clock - peerLifeTime, FALSE))]
        /\ nops' = nops + 1
        /\ UNCHANGED <<clock, feVars>>

Next ==
    \/ Tick
    \/ CallPutSeeder
    \/ CallPutLeecher
    \/ CallDeleteSeeder
    \/ CallDeleteLeecher
    \/ CallGraduateLeecher
    \/ CallAnnouncePeers
    \/ CallScrapeSwarm
    \/ RunGC

Spec == Init /\ [][Next]_vars

(***************************************************************************)
(* The frontend's operations as actions                                    *)
(***************************************************************************)
\* the most hooks the caller registers before (resp. after) the response
MaxPreHooks == 2
MaxPostHooks == 2
\* the most datagrams handled
MaxDatagrams == 1

SeqsUpTo(S, n) == UNION {[1..k -> S] : k \in 0..n}

PostHookKinds == {"pass", "fail"}

\* The datagrams of one sender at time 0: the connection ID is the initial
\* one, one the generator accepts from the sender at that time, or a forged
\* one.
FirstDatagrams ==
    [long : BOOLEAN, ip : {1},
     connID : {initialConnectionID, Generate(1, 0), [ts |-> 0, mac |-> forgedMAC]},
     actionID : ActionIDs, txID : 1..NTx,
     body : {Malformed} \cup AnnounceRequests \cup ScrapeRequests]

\* the frames of wire as the socket carries them to the sender at ip
written(ip, wire) == {[ip |-> ip, frame |-> wire[i]] : i \in 1..Len(wire)}

\* the connection IDs written so far, each with the address it was sent to
issued ==
    {[ip |-> w.ip, connID |-> w.frame.connID] :
        w \in {x \in sent : x.frame.action = connectActionID}}

\* The datagrams the frontend is given: a short one has no header to speak
\* of, and the parser looks at the body of announces and scrapes only.
ReceivedDatagrams ==
    {pkt \in FirstDatagrams :
        /\ ~pkt.long => pkt.connID.mac = forgedMAC /\ pkt.actionID = unknownActionID
        /\ pkt.body \in AnnounceRequests =>
              /\ pkt.long
              /\ pkt.actionID \in {announceActionID, announceV6ActionID}
              /\ pkt.body.numWant = MaxWant
        /\ pkt.body \in ScrapeRequests => pkt.long /\ pkt.actionID = scrapeActionID}

\* NewFrontend with a Logic of the caller's hooks
InitFE ==
    /\ db = EmptyDB
    /\ clock = 0
    /\ nops = 0
    /\ last = [op |-> "none"]
    /\ \E pre \in SeqsUpTo(HookKinds, MaxPreHooks), post \in SeqsUpTo(PostHookKinds, MaxPostHooks) :
          logic = NewLogic(pre, post)
    /\ tasks = <<>>
    /\ closing = FALSE
    /\ ndg = 0
    /\ sent = {}
    /\ udpFE = NewFrontend
    /\ ps = NewStore

\* the goroutine serve starts for a datagram it has read: handleRequest
\* The context NewFrontend made with context.WithCancel, which f.ctxCancel
\* cancels: done once Close has cancelled it.
requestCtx(cancelled) == [vals |-> {}, done |-> cancelled, cancel |-> "ctxCancel"]

\* a context as a goroutine finds it: done once its cancel function was called
ctxNow(ctx, cancelled) ==
    [ctx EXCEPT !.done = @ \/ (ctx.cancel = "ctxCancel" /\ cancelled)]

Handle(pkt) ==
    /\ ndg' = ndg + 1
    /\ UNCHANGED <<db, clock, nops, logic, closing, ps>>
    /\ \E out \in handleRequest(logic, db, requestCtx(closing), pkt, clock) :
          /\ tasks' = tasks \o out.spawn
          /\ sent' = sent \cup written(pkt.ip, out.wire)
          /\ last' = [op |-> "handleRequest", pkt |-> pkt, now |-> clock,
                      ctx |-> requestCtx(closing), out |-> out]

HandleRequest ==
    /\ ndg < MaxDatagrams
    /\ \E pkt \in ReceivedDatagrams : Handle(pkt)
    /\ UNCHANGED udpFE

\* a goroutine started by handleRequest runs Logic.AfterAnnounce or AfterScrape
RunTask ==
    \E i \in 1..Len(tasks) :
        /\ tasks' = [j \in 1..(Len(tasks) - 1) |-> IF j < i THEN tasks[j] ELSE tasks[j + 1]]
        /\ IF tasks[i].kind = "announce"
           THEN \E r \in {AfterAnnounce(logic, db, ctxNow(tasks[i].ctx, closing),
                                          tasks[i].req, clock)} :
                    /\ db' = r.db
                    /\ last' = [op |-> "AfterAnnounce", task |-> tasks[i], calls |-> r.calls,
                                storeCalls |-> r.storeCalls, logged |-> r.logged]
           ELSE \E r \in {AfterScrape(logic, ctxNow(tasks[i].ctx, closing))} :
                    /\ db' = db
                    /\ last' = [op |-> "AfterScrape", task |-> tasks[i], calls |-> r.calls,
                                storeCalls |-> <<>>, logged |-> r.logged]
        /\ UNCHANGED <<clock, nops, logic, closing, ndg, sent, udpFE, ps>>

\* Close: close(f.closing) and f.ctxCancel()
Close ==
    /\ ~closing
    /\ closing' = TRUE
    /\ UNCHANGED <<db, clock, nops, last, logic, tasks, ndg, sent, udpFE, ps>>

NextFE ==
    \/ HandleRequest
    \/ RunTask
    \/ Close

SpecFE == InitFE /\ [][NextFE]_vars

(***************************************************************************)
(* Shutdown: the serve loops, the handler goroutines and Close, step by     *)
(* step                                                                    *)
(***************************************************************************)
\* the most datagrams read while the frontend shuts down
MaxCloseDatagrams == 2

\* the datagrams read: a connect, and an announce and a scrape with a
\* connection ID the generator accepts
CloseDatagrams ==
    {pkt \in FirstDatagrams :
        /\ pkt.long
        /\ pkt.txID = 1
        /\ \/ pkt.actionID = connectActionID /\ pkt.connID = initialConnectionID
                 /\ pkt.body = Malformed
           \/ /\ pkt.connID = Generate(1, 0)
              /\ \/ /\ pkt.actionID = announceActionID
                    /\ pkt.body = [ih |-> [len |-> InfoHashV1Len, id |-> 1], peers |-> <<1>>,
                                   event |-> Started, left |-> 0, numWant |-> MaxWant]
                 \/ /\ pkt.actionID = scrapeActionID
                    /\ pkt.body = [infoHashes |-> <<[len |-> InfoHashV1Len, id |-> 1]>>]}

\* f.wg.Wait() as it would be if Close did not wait
wgWaitSkipped(f) == TRUE

\* f.wg.Wait() returns
wgWait(f) == f.wg = 0

\* the sequence t without its i-th element
Without(t, i) == [j \in 1..(Len(t) - 1) |-> IF j < i THEN t[j] ELSE t[j + 1]]

\* onceCloser.Do as it would be if the body were run for every caller
onceDoEvery(f) == TRUE

\* onceCloser.Do runs the body for the first caller only
onceDo(f) == f.pc = "running"

\* a goroutine calls Close and enters f.onceCloser.Do
CloseCall ==
    \E c \in Closers :
        /\ udpFE.close[c] \in {"idle", "returned"}
        /\ udpFE' = [udpFE EXCEPT !.close[c] = "do"]
        /\ UNCHANGED <<db, clock, nops, last, logic, tasks, closing, ndg, sent, ps>>

\* onceCloser.Do returns to a caller once the body has been run to its end,
\* and Close returns
CloseReturnTo(c) ==
    /\ udpFE.close[c] = "do"
    /\ udpFE.pc = "closed"
    /\ udpFE' = [udpFE EXCEPT !.close[c] = "returned"]
    /\ UNCHANGED <<db, clock, nops, last, logic, tasks, closing, ndg, sent, ps>>

CloseReturn == \E c \in Closers : CloseReturnTo(c)

\* Close: the body starts, close(f.closing) and f.ctxCancel()
CloseSignal ==
    /\ \E c \in Closers : udpFE.close[c] = "do"
    /\ onceDo(udpFE)
    /\ closing' = TRUE
    /\ udpFE' = [udpFE EXCEPT !.pc = "deadline", !.runs = @ + 1]
    /\ UNCHANGED <<db, clock, nops, last, logic, tasks, ndg, sent, ps>>

\* Close: s.SetDeadline(now) for every socket
CloseSetDeadline ==
    /\ udpFE.pc = "deadline"
    /\ udpFE' = [udpFE EXCEPT !.pc = "wait", !.deadline = Sockets]
    /\ UNCHANGED <<db, clock, nops, last, logic, tasks, closing, ndg, sent, ps>>

\* Close: f.wg.Wait() has returned
CloseWait ==
    /\ udpFE.pc = "wait"
    /\ wgWait(udpFE)
    /\ udpFE' = [udpFE EXCEPT !.pc = "closeGroup"]
    /\ UNCHANGED <<db, clock, nops, last, logic, tasks, closing, ndg, sent, ps>>

\* Close: frontend.CloseGroup(cls)
CloseSockets ==
    /\ udpFE.pc = "closeGroup"
    /\ udpFE' = [udpFE EXCEPT !.pc = "closed", !.open = {}]
    /\ UNCHANGED <<db, clock, nops, last, logic, tasks, closing, ndg, sent, ps>>

\* serve, at the top of its loop: return (and f.wg.Done()) if f.closing is
\* closed, else go on to read
ServeSelect ==
    \E s \in Sockets :
        /\ udpFE.serve[s] = "select"
        /\ udpFE' = IF closing
                    THEN [udpFE EXCEPT !.serve[s] = "returned", !.wg = @ - 1]
                    ELSE [udpFE EXCEPT !.serve[s] = "read"]
        /\ UNCHANGED <<db, clock, nops, last, logic, tasks, closing, ndg, sent, ps>>

\* serve, in ReadFromUDPAddrPort: on a closed socket the read fails and serve
\* returns the error; past the deadline it times out and the loop continues;
\* else a datagram is read, f.wg.Add(1) and its handler goroutine is started
ServeRead ==
    \E s \in Sockets :
        /\ udpFE.serve[s] = "read"
        /\ IF s \notin udpFE.open
           THEN udpFE' = [udpFE EXCEPT !.serve[s] = "returned", !.wg = @ - 1]
           ELSE IF s \in udpFE.deadline
           THEN udpFE' = [udpFE EXCEPT !.serve[s] = "select"]
           ELSE /\ ndg + Len(udpFE.handlers) < MaxCloseDatagrams
                /\ \E pkt \in CloseDatagrams :
                      udpFE' = [udpFE EXCEPT !.serve[s] = "select", !.wg = @ + 1,
                                             !.handlers = Append(@, [socket |-> s, pkt |-> pkt])]
        /\ UNCHANGED <<db, clock, nops, last, logic, tasks, closing, ndg, sent, ps>>

\* a handler goroutine: handleRequest, then f.wg.Done()
ServeHandler ==
    \E i \in 1..Len(udpFE.handlers) :
        /\ udpFE' = [udpFE EXCEPT !.handlers = Without(@, i), !.wg = @ - 1]
        /\ Handle(udpFE.handlers[i].pkt)

InitClose ==
    /\ db = EmptyDB
    /\ clock = 0
    /\ nops = 0
    /\ last = [op |-> "none"]
    /\ logic = NewLogic(<<>>, <<>>)
    /\ tasks = <<>>
    /\ closing = FALSE
    /\ ndg = 0
    /\ sent = {}
    /\ udpFE = NewFrontend
    /\ ps = NewStore

NextClose ==
    \/ ServeSelect
    \/ ServeRead
    \/ ServeHandler
    \/ RunTask
    \/ CloseCall
    \/ CloseSignal
    \/ CloseSetDeadline
    \/ CloseWait
    \/ CloseSockets
    \/ CloseReturn

SpecClose == InitClose /\ [][NextClose]_vars

\* ServeHandler can be taken exactly when a handler goroutine exists
HandlerEnabled == (ENABLED <<ServeHandler>>_vars) <=> Len(udpFE.handlers) > 0

\* WF_vars(ServeHandler) written out with what HandlerEnabled states: a
\* handler goroutine that exists is run
HandlersRun == []<>(Len(udpFE.handlers) = 0) \/ []<><<ServeHandler>>_vars

\* the goroutines are scheduled: every serve loop, every handler goroutine and
\* every caller of Close goes on when it can
SpecCloseFair ==
    /\ SpecClose
    /\ WF_vars(ServeSelect \/ ServeRead)
    /\ HandlersRun
    /\ WF_vars(CloseSignal \/ CloseSetDeadline \/ CloseWait \/ CloseSockets)
    /\ \A c \in Closers : WF_vars(CloseReturnTo(c))

(***************************************************************************)
(* Sessions: clients that connect, announce and scrape, one datagram after  *)
(* the other, against a Logic without hooks of the caller                  *)
(***************************************************************************)
\* the most datagrams handled in a session
MaxSessionDatagrams == 3

\* The connection IDs a client of a session presents: the initial one, or any
\* the frontend has written, to the client or to another address.
SessionConnIDs == {initialConnectionID} \cup {t.connID : t \in issued}

\* What follows the header: nothing the parser reads after a connect, an
\* announce of the sender as the peer, a scrape of one infohash or of a v1
\* infohash and a v2 infohash.
SessionBodies(ip, actionID) ==
    IF actionID = connectActionID THEN {Malformed}
    ELSE IF actionID = announceActionID
    THEN {[ih |-> ih, peers |-> <<ip>>, event |-> e, left |-> l, numWant |-> MaxWant] :
             ih \in InfoHashes, e \in Events, l \in 0..1}
    ELSE {r \in ScrapeRequests :
             Len(r.infoHashes) = 2
                => r.infoHashes[1].len = InfoHashV1Len /\ r.infoHashes[2].len = InfoHashV2Len}

SessionDatagrams ==
    UNION {{[long |-> TRUE, ip |-> ip, connID |-> connID, actionID |-> actionID,
             txID |-> txID, body |-> body] : body \in SessionBodies(ip, actionID)} :
           ip \in 1..NIPs, connID \in SessionConnIDs, txID \in 1..NTx,
           actionID \in {connectActionID, announceActionID, scrapeActionID}}

InitSession ==
    /\ db = EmptyDB
    /\ clock = 0
    /\ nops = 0
    /\ last = [op |-> "none"]
    /\ logic = NewLogic(<<>>, <<>>)
    /\ tasks = <<>>
    /\ closing = FALSE
    /\ ndg = 0
    /\ sent = {}
    /\ udpFE = NewFrontend
    /\ ps = NewStore

\* the goroutine serve starts for a datagram of a session
HandleSessionRequest ==
    /\ ndg < MaxSessionDatagrams
    /\ \E pkt \in SessionDatagrams : Handle(pkt)
    /\ UNCHANGED udpFE

NextSession ==
    \/ HandleSessionRequest
    \/ RunTask
    \/ Tick

SpecSession == InitSession /\ [][NextSession]_vars

(***************************************************************************)
(* Swarm membership as the claims speak of it                              *)
(***************************************************************************)
\* the seeder set of ih: the fields of CHI_S4_<ih> and CHI_S6_<ih>
Seeders(d, ih) ==
    DOMAIN d.hash[InfoHashKey(ih, TRUE, FALSE)] \cup DOMAIN d.hash[InfoHashKey(ih, TRUE, TRUE)]

\* the leecher set of ih: the fields of CHI_L4_<ih> and CHI_L6_<ih>
Leechers(d, ih) ==
    DOMAIN d.hash[InfoHashKey(ih, FALSE, FALSE)] \cup DOMAIN d.hash[InfoHashKey(ih, FALSE, TRUE)]

\* the number of seeder (resp. leecher) entries over all swarms
SeederEntries(d) ==
    Cardinality({kp \in InfoHashKeys \X Peers : IsSeederKey(kp[1]) /\ kp[2] \in DOMAIN d.hash[kp[1]]})

LeecherEntries(d) ==
    Cardinality({kp \in InfoHashKeys \X Peers : IsLeecherKey(kp[1]) /\ kp[2] \in DOMAIN d.hash[kp[1]]})

\* a step that performed an operation (Tick and Close perform none)
OpStep == nops' = nops + 1

(***************************************************************************)
(* Claims about the peer store                                             *)
(***************************************************************************)
\* C1: for every (infohash, peer) the peer is never in the seeder set and in
\* the leecher set of the infohash at once.
C1_NeverInBothSets ==
    \A ih \in InfoHashes, p \in Peers : ~(p \in Seeders(db, ih) /\ p \in Leechers(db, ih))

\* C2: between operations the global seeder counter equals the number of
\* seeder entries over all swarms, and the global leecher counter the number of
\* leecher entries.
C2_CountersEqualEntries ==
    /\ db.count[CountSeederKey] = SeederEntries(db)
    /\ db.count[CountLeecherKey] = LeecherEntries(db)

\* C9: GraduateLeecher(ih, peer) leaves the peer a seeder and no leecher of
\* ih, and adds 1 to the snatches of ih when the peer was a leecher before the
\* call and 0 when it was not.
C9_GraduateSnatchesOnTransition ==
    [][(OpStep /\ last'.op = "GraduateLeecher") =>
        /\ last'.peer \in Seeders(db', last'.ih)
        /\ last'.peer \notin Leechers(db', last'.ih)
        /\ db'.downloads[last'.ih] =
             db.downloads[last'.ih] + (IF last'.peer \in Leechers(db, last'.ih) THEN 1 ELSE 0)]_vars

\* C10: AnnouncePeers(ih, forSeeder, n, v6) with n >= 0 returns at most n
\* peers, all of the requested address family, none of them twice.
C10_AnnouncePeersBoundedFamilyDistinct ==
    last.op = "AnnouncePeers" =>
        /\ Len(last.peers) <= last.numWant
        /\ \A i \in 1..Len(last.peers) : Is6(last.peers[i]) = last.v6
        /\ \A i, j \in 1..Len(last.peers) : i # j => last.peers[i] # last.peers[j]

(***************************************************************************)
(* Claims about the frontend and the Logic                                 *)
(***************************************************************************)
\* a step that handled a datagram
HandleStep == ndg' = ndg + 1

\* a step that ran the post-hooks of a request
TaskStep == Len(tasks') < Len(tasks)

Range(f) == {f[i] : i \in DOMAIN f}

\* last is a handleRequest whose pre-hook chain ended with the error of a hook
PreHookRejected(l) ==
    /\ l.op = "handleRequest"
    /\ l.out.logic # "none"
    /\ l.out.calls # <<>>
    /\ l.out.calls[Len(l.out.calls)].err # Nil

\* C3: a datagram of at least 16 bytes whose action is not connect and whose
\* connection ID fails validation gets exactly one error frame "bad connection
\* id"; neither Logic.HandleAnnounce nor HandleScrape is called, no post-hook
\* is started and the peer store is unchanged.
C3_BadConnectionIDRejected ==
    [][(/\ HandleStep
        /\ last'.pkt.long
        /\ last'.pkt.actionID # connectActionID
        /\ ~Validate(last'.pkt.connID, last'.pkt.ip, clock))
       => /\ last'.out.wire = <<[action |-> errorActionID, txID |-> last'.pkt.txID,
                                 msg |-> "bad connection id", end |-> NUL]>>
          /\ last'.out.logic = "none"
          /\ last'.out.calls = <<>>
          /\ tasks' = tasks
          /\ db' = db]_vars

\* a scrape with a connection ID that fails validation was rejected
C3_Witness ==
    /\ last.op = "handleRequest"
    /\ last.pkt.long
    /\ last.pkt.actionID = scrapeActionID
    /\ last.pkt.connID.mac = forgedMAC
    /\ last.pkt.body \in ScrapeRequests
    /\ Len(last.out.wire) = 1
    /\ last.out.wire[1].msg = errBadConnectionID

\* C4: Logic.HandleAnnounce and HandleScrape run the pre-hooks in registration
\* order, the response hook last, each hook receiving the context the previous
\* one returned; the first error ends the chain and is returned with no
\* response.
C4_PreHooksInOrder ==
    (last.op = "handleRequest" /\ last.out.logic # "none") =>
        LET c == last.out.calls
            h == logic.preHooks
        IN  /\ Len(c) >= 1 /\ Len(c) <= Len(h)
            /\ \A i \in 1..Len(c) : c[i].hook = h[i]
            /\ h[Len(h)] = ResponseHook
            /\ \A i \in 1..(Len(h) - 1) : h[i] # ResponseHook
            /\ c[1].ctx = [last.ctx EXCEPT !.vals = @ \cup {RouteParamsKey}]
            /\ \A i \in 1..(Len(c) - 1) : c[i].err = Nil /\ c[i + 1].ctx = c[i].out
            /\ IF c[Len(c)].err # Nil
               THEN last.out.lerr = c[Len(c)].err /\ last.out.resp = NilResp
               ELSE Len(c) = Len(h) /\ last.out.lerr = Nil /\ last.out.resp # NilResp

\* the second of two caller's pre-hooks got the context of the first and
\* returned an error: the response hook did not run
C4_Witness ==
    /\ last.op = "handleRequest"
    /\ last.out.logic = "HandleAnnounce"
    /\ logic.preHooks = <<"skipSwarm", "unapproved", ResponseHook>>
    /\ Len(last.out.calls) = 2
    /\ SkipSwarmInteractionKey \in last.out.calls[2].ctx.vals
    /\ last.out.lerr = ErrTorrentUnapproved
    /\ last.out.resp = NilResp

\* C5 as stated: when a post-hook returns an error in Logic.AfterAnnounce or
\* AfterScrape, the error is logged and every subsequent post-hook, the
\* swarm-interaction hook included, still runs.
C5_LaterPostHooksStillRun ==
    last.op \in {"AfterAnnounce", "AfterScrape"} =>
        /\ Len(last.calls) = Len(logic.postHooks)
        /\ (\E i \in 1..Len(last.calls) : last.calls[i].err # Nil) => last.logged # Nil

\* C5 amended: when a post-hook returns an error in Logic.AfterAnnounce or
\* AfterScrape, the error is logged and the chain ends there: no subsequent
\* post-hook runs, so after the error of a caller's post-hook the
\* swarm-interaction hook performs no store operation.
C5_PostHookErrorEndsChain ==
    last.op \in {"AfterAnnounce", "AfterScrape"} =>
        LET c == last.calls
            h == logic.postHooks
        IN  /\ Len(c) >= 1 /\ Len(c) <= Len(h)
            /\ \A i \in 1..Len(c) : c[i].hook = h[i]
            /\ \A i \in 1..(Len(c) - 1) : c[i].err = Nil
            /\ IF c[Len(c)].err # Nil
               THEN /\ last.logged = c[Len(c)].err
                    /\ c[Len(c)].hook # SwarmInteractionHook => last.storeCalls = <<>>
               ELSE Len(c) = Len(h) /\ last.logged = Nil

\* the first of two caller's post-hooks failed: neither the second nor the
\* swarm-interaction hook ran
C5_Witness ==
    /\ last.op = "AfterAnnounce"
    /\ logic.postHooks = <<"fail", "pass", SwarmInteractionHook>>
    /\ Len(last.calls) = 1
    /\ last.logged = ErrHookFailed
    /\ last.storeCalls = <<>>

\* C6 as stated: when a pre-hook rejects an announce with an error, the
\* frontend sends an error frame, starts no post-hook chain and leaves the
\* peer store unchanged.
C6_RejectedAnnounceGetsErrorFrame ==
    [][(HandleStep /\ PreHookRejected(last') /\ last'.out.logic = "HandleAnnounce")
       => /\ Len(last'.out.wire) = 1
          /\ last'.out.wire[1].action = errorActionID
          /\ last'.out.wire[1].txID = last'.pkt.txID
          /\ tasks' = tasks
          /\ db' = db]_vars

\* C6 amended: when a pre-hook rejects an announce with an error, the frontend
\* sends exactly one error frame unless the error is context.Canceled, for
\* which it sends nothing; either way it starts no post-hook chain and leaves
\* the peer store unchanged.
C6_RejectedAnnounceNoPostHooks ==
    [][(HandleStep /\ PreHookRejected(last') /\ last'.out.logic = "HandleAnnounce")
       => /\ IF last'.out.lerr = Canceled
             THEN last'.out.wire = <<>>
             ELSE /\ Len(last'.out.wire) = 1
                  /\ last'.out.wire[1].action = errorActionID
                  /\ last'.out.wire[1].txID = last'.pkt.txID
          /\ last'.out.spawn = <<>>
          /\ tasks' = tasks
          /\ db' = db]_vars

\* an announce was rejected as unapproved and answered with the error frame
C6_Witness ==
    /\ PreHookRejected(last)
    /\ last.out.logic = "HandleAnnounce"
    /\ last.out.lerr = ErrTorrentUnapproved
    /\ Len(last.out.wire) = 1
    /\ last.out.wire[1].msg = ErrTorrentUnapproved
    /\ tasks = <<>>

\* C7: when a pre-hook attached a value under SkipSwarmInteractionKey to the
\* context of an announce, the swarm-interaction post-hook the frontend runs
\* for that request performs no store operation.
C7_SkipFlagReachesPostHook ==
    (/\ last.op = "AfterAnnounce"
     /\ \E i \in 1..Len(logic.preHooks) : logic.preHooks[i] = "skipSwarm")
    => last.storeCalls = <<>>

\* the store operations C8 gives a request
C8_Chosen(req) ==
    IF req.event = Stopped THEN {"DeleteSeeder", "DeleteLeecher"}
    ELSE IF req.event = Completed THEN {"GraduateLeecher"}
    ELSE IF req.left = 0 THEN {"PutSeeder"}
    ELSE {"PutLeecher"}

\* C8: the swarm-interaction hook chooses by (event, left): Stopped ->
\* DeleteSeeder and DeleteLeecher; else Completed -> GraduateLeecher; else
\* left = 0 -> PutSeeder; else PutLeecher; and it applies the chosen operation
\* to every peer of the request (no store operation failing).
C8_DispatchByEventAndLeft ==
    (/\ last.op = "AfterAnnounce"
     /\ last.calls[Len(last.calls)].hook = SwarmInteractionHook
     /\ SkipSwarmInteractionKey \notin last.calls[Len(last.calls)].ctx.vals
     /\ last.logged = Nil)
    => LET req == last.task.req IN
       /\ \A i \in 1..Len(req.peers) : \A fn \in C8_Chosen(req) :
             [fn |-> fn, ih |-> req.ih, peer |-> req.peers[i]] \in Range(last.storeCalls)
       /\ \A call \in Range(last.storeCalls) :
             /\ call.fn \in C8_Chosen(req)
             /\ call.peer \in Range(req.peers)
             /\ call.ih \in {req.ih, TruncateV1(req.ih)}

\* a Completed announce with nothing left, of a peer with two addresses, made
\* GraduateLeecher run for both
C8_Witness ==
    /\ last.op = "AfterAnnounce"
    /\ last.task.req.event = Completed
    /\ last.task.req.left = 0
    /\ Len(last.task.req.peers) = 2
    /\ last.task.req.ih.len = InfoHashV1Len
    /\ Len(last.storeCalls) = 2
    /\ \A i \in 1..2 : last.storeCalls[i].fn = "GraduateLeecher"

(***************************************************************************)
(* More claims about the peer store                                        *)
(***************************************************************************)
\* the hash AnnouncePeers read for seeders (resp. leechers) of the family asked
AskedSeeders == db.hash[InfoHashKey(last.ih, TRUE, last.v6)]
AskedLeechers == db.hash[InfoHashKey(last.ih, FALSE, last.v6)]

\* ---------------------------------------------------------------------------
\* The torrent-approval hook with the "list" container.

\* number of infohashes a hash list is drawn from
NApprovalHashes == 2

ApprovalHashes == [len : {InfoHashV1Len}, id : 1..NApprovalHashes]

\* the "invert" key of the list configuration, absent or given
Inverts == {"unset", "true", "false"}

\* baseConfig with Source "list": the hash list and the invert key
ListConfigs == [hash_list : SUBSET ApprovalHashes, invert : Inverts]

\* the table of TestHandleAnnounce: the list holds the first infohash
cases ==
    {[cfg |-> [hash_list |-> {[len |-> InfoHashV1Len, id |-> 1]}, invert |-> "unset"],
      ih |-> [len |-> InfoHashV1Len, id |-> 1], approved |-> TRUE],
     [cfg |-> [hash_list |-> {[len |-> InfoHashV1Len, id |-> 1]}, invert |-> "unset"],
      ih |-> [len |-> InfoHashV1Len, id |-> 2], approved |-> FALSE],
     [cfg |-> [hash_list |-> {[len |-> InfoHashV1Len, id |-> 1]}, invert |-> "true"],
      ih |-> [len |-> InfoHashV1Len, id |-> 2], approved |-> TRUE],
     [cfg |-> [hash_list |-> {[len |-> InfoHashV1Len, id |-> 1]}, invert |-> "true"],
      ih |-> [len |-> InfoHashV1Len, id |-> 1], approved |-> FALSE]}

\* Approved as it would be if the invert key were not looked at
ApprovedListOnly(cfg, ih) == ih \in cfg.hash_list

\* Container.Approved of the list container: membership, turned round by invert
Approved(cfg, ih) == (ih \in cfg.hash_list) # (cfg.invert = "true")

\* HandleAnnounce of the torrent-approval hook
approvalHandleAnnounce(cfg, ctx, req) ==
    [ctx |-> ctx, err |-> IF Approved(cfg, req.ih) THEN Nil ELSE ErrTorrentUnapproved]

\* the contexts a hook can be handed
ApprovalContexts ==
    [vals : SUBSET {RouteParamsKey}, done : BOOLEAN, cancel : {"none", "ctxCancel"}]

InitApproval ==
    /\ db = EmptyDB
    /\ clock = 0
    /\ nops = 0
    /\ \E cfg \in ListConfigs, ih \in ApprovalHashes, ctx \in ApprovalContexts :
          last = [op |-> "NewHook", cfg |-> cfg, ctx |-> ctx, req |-> [ih |-> ih]]
    /\ logic = NewLogic(<<>>, <<>>)
    /\ tasks = <<>>
    /\ closing = FALSE
    /\ ndg = 0
    /\ sent = {}
    /\ udpFE = NewFrontend
    /\ ps = NewStore

\* h.HandleAnnounce(ctx, req, resp) on the hook d.NewHook made from cfg
ApprovalHandleAnnounce ==
    /\ last.op = "NewHook"
    /\ last' = [op |-> "HandleAnnounce", cfg |-> last.cfg, ctx |-> last.ctx,
                req |-> last.req,
                out |-> approvalHandleAnnounce(last.cfg, last.ctx, last.req)]
    /\ UNCHANGED <<db, clock, nops, logic, tasks, closing, ndg, sent, udpFE, ps>>

NextApproval == ApprovalHandleAnnounce

SpecApproval == InitApproval /\ [][NextApproval]_vars

\* ---------------------------------------------------------------------------
\* The store's goroutines and Stop, one step at a time.

\* ps.wg.Wait() as it would be if it returned at once
psWgWaitSkipped(st) == TRUE

\* ps.wg.Wait() returns when the counter is zero
psWgWait(st) == st.wg = 0

\* ScheduleGC: ps.wg.Add(1) and the goroutine with its timer
ScheduleGC ==
    \E peerLifeTime \in 0..MaxLifetime :
        /\ ps.gc = "none"
        /\ ps.stop = "none"
        /\ ps' = [ps EXCEPT !.wg = @ + 1, !.gc = "select", !.peerLifeTime = peerLifeTime]
        /\ UNCHANGED <<db, clock, nops, last, feFields>>

\* gcInterval has passed: the timer of the gc goroutine fires
GCTimer ==
    /\ ps.gc = "select"
    /\ ~ps.gcTimer
    /\ ps' = [ps EXCEPT !.gcTimer = TRUE]
    /\ UNCHANGED <<db, clock, nops, last, feFields>>

\* the gc goroutine's select: return on ps.closed, start a sweep on t.C; with
\* both ready either is taken
GCSelect ==
    /\ ps.gc = "select"
    /\ \/ /\ ps.closed
          /\ ps' = [ps EXCEPT !.gc = "returned", !.wg = @ - 1, !.gcTimer = FALSE]
       \/ /\ ps.gcTimer
          /\ ps' = [ps EXCEPT !.gc = "gc", !.gcTimer = FALSE]
    /\ UNCHANGED <<db, clock, nops, last, feFields>>

\* the gc goroutine's sweep: ps.gc(time.Now().Add(-peerLifeTime)), t.Reset
GCSweep ==
    /\ ps.gc = "gc"
    /\ db' = gc(db, clock - ps.peerLifeTime)
    /\ last' = [op |-> "gc", cutoff |-> clock - ps.peerLifeTime,
                removed |-> Cardinality(gcRemoved(db, clock - ps.peerLifeTime, TRUE))
                            + Cardinality(gcRemoved(db, clock - ps.peerLifeTime, FALSE))]
    /\ ps' = [ps EXCEPT !.gc = "select"]
    /\ UNCHANGED <<clock, nops, feFields>>

\* ScheduleStatisticsCollection: ps.wg.Add(1) and the goroutine with its ticker
ScheduleStatisticsCollection ==
    /\ ps.stats = "none"
    /\ ps.stop = "none"
    /\ ps' = [ps EXCEPT !.wg = @ + 1, !.stats = "select"]
    /\ UNCHANGED <<db, clock, nops, last, feFields>>

\* reportInterval has passed: the ticker of the statistics goroutine fires
StatsTicker ==
    /\ ps.stats = "select"
    /\ ~ps.statsTicker
    /\ ps' = [ps EXCEPT !.statsTicker = TRUE]
    /\ UNCHANGED <<db, clock, nops, last, feFields>>

\* the statistics goroutine's select
StatsSelect ==
    /\ ps.stats = "select"
    /\ \/ /\ ps.closed
          /\ ps' = [ps EXCEPT !.stats = "returned", !.wg = @ - 1, !.statsTicker = FALSE]
       \/ /\ ps.statsTicker
          /\ ps' = [ps EXCEPT !.stats = "collect", !.statsTicker = FALSE]
    /\ UNCHANGED <<db, clock, nops, last, feFields>>

\* the statistics goroutine reads the counts (nothing is written to the store)
StatsCollect ==
    /\ ps.stats = "collect"
    /\ ps' = [ps EXCEPT !.stats = "select"]
    /\ UNCHANGED <<db, clock, nops, last, feFields>>

\* Stop: the goroutine is started and the result channel handed to the caller
StopCall ==
    /\ ps.stop = "none"
    /\ ps' = [ps EXCEPT !.stop = "close"]
    /\ UNCHANGED <<db, clock, nops, last, feFields>>

\* Stop: close(ps.closed)
StopClose ==
    /\ ps.stop = "close"
    /\ ps' = [ps EXCEPT !.stop = "wait", !.closed = TRUE]
    /\ UNCHANGED <<db, clock, nops, last, feFields>>

\* Stop: ps.wg.Wait()
StopWait ==
    /\ ps.stop = "wait"
    /\ psWgWait(ps)
    /\ ps' = [ps EXCEPT !.stop = "client"]
    /\ UNCHANGED <<db, clock, nops, last, feFields>>

\* Stop: ps.UniversalClient.Close() and ps.UniversalClient = nil
StopCloseClient ==
    /\ ps.stop = "client"
    /\ ps' = [ps EXCEPT !.stop = "done", !.client = "nil"]
    /\ UNCHANGED <<db, clock, nops, last, feFields>>

\* Stop: c.Done(err)
StopDone ==
    /\ ps.stop = "done"
    /\ ps' = [ps EXCEPT !.stop = "delivered", !.result = Nil]
    /\ UNCHANGED <<db, clock, nops, last, feFields>>

\* the store holds nothing, or one seeder put at time 0
InitStop ==
    /\ db \in {EmptyDB} \cup {PutSeeder(EmptyDB, ih, p, 0).db : ih \in InfoHashes, p \in Peers}
    /\ clock = 0
    /\ nops = 0
    /\ last = [op |-> "none"]
    /\ logic = NewLogic(<<>>, <<>>)
    /\ tasks = <<>>
    /\ closing = FALSE
    /\ ndg = 0
    /\ sent = {}
    /\ udpFE = NewFrontend
    /\ ps = NewStore

NextStop ==
    \/ Tick
    \/ ScheduleGC
    \/ GCTimer
    \/ GCSelect
    \/ GCSweep
    \/ ScheduleStatisticsCollection
    \/ StatsTicker
    \/ StatsSelect
    \/ StatsCollect
    \/ StopCall
    \/ StopClose
    \/ StopWait
    \/ StopCloseClient
    \/ StopDone

SpecStop == InitStop /\ [][NextStop]_vars

\* ---------------------------------------------------------------------------
\* responseHook.appendPeers on a response that earlier hooks have filled.

\* the most peers an earlier hook has left in each list of the response
MaxGiven == 1

\* the lists an earlier hook may have left: of any peers, in either list
GivenPeers ==
    UNION {[1..n -> Peers \cup {InvalidPeer}] : n \in 0..MaxGiven}

\* the stores one more announce at time 0 makes of the stores ds
AnnouncedOnce(ds) ==
    UNION {{PutSeeder(d, ih, p, 0).db : ih \in InfoHashes, p \in Peers}
           \cup {PutLeecher(d, ih, p, 0).db : ih \in InfoHashes, p \in Peers} : d \in ds}

\* the store holds nothing, or what one or two announces left
InitAppend ==
    /\ db \in {EmptyDB} \cup AnnouncedOnce({EmptyDB}) \cup AnnouncedOnce(AnnouncedOnce({EmptyDB}))
    /\ clock = 0
    /\ nops = 0
    /\ \E ih \in InfoHashes, p \in Peers, left \in 0..1, numWant \in 0..MaxWant,
          v4 \in GivenPeers, v6 \in GivenPeers :
          last = [op |-> "HandleAnnounce",
                  req |-> [ih |-> ih, peers |-> <<p>>, event |-> None, left |-> left,
                           numWant |-> numWant],
                  resp |-> [interval |-> AnnounceInterval, incomplete |-> 0, complete |-> 0,
                            ipv4Peers |-> v4, ipv6Peers |-> v6]]
    /\ logic = NewLogic(<<>>, <<>>)
    /\ tasks = <<>>
    /\ closing = FALSE
    /\ ndg = 0
    /\ sent = {}
    /\ udpFE = NewFrontend
    /\ ps = NewStore

\* h.appendPeers(ctx, req, resp)
AppendPeers ==
    /\ last.op = "HandleAnnounce"
    /\ \E r \in appendPeers(db, last.req, last.resp) :
          last' = [op |-> "appendPeers", req |-> last.req, given |-> last.resp,
                   resp |-> r.resp, asked |-> r.asked]
    /\ UNCHANGED <<db, clock, nops, feVars>>

NextAppend == AppendPeers

SpecAppend == InitAppend /\ [][NextAppend]_vars

\* ---------------------------------------------------------------------------
\* swarmInteractionHook.HandleAnnounce on a store whose operations may fail.

\* the store operations the hook can make for req
InteractCalls(req) ==
    {c[i] : i \in 1..2,
            c \in {storeFnCalls("Delete", ih, req.peers[1]) : ih \in {req.ih, TruncateV1(req.ih)}}}
    \cup {[fn |-> fn, ih |-> ih, peer |-> req.peers[1]] :
            fn \in {"GraduateLeecher", "PutSeeder", "PutLeecher"},
            ih \in {req.ih, TruncateV1(req.ih)}}

InitInteract ==
    /\ db \in {EmptyDB} \cup AnnouncedOnce({EmptyDB}) \cup AnnouncedOnce(AnnouncedOnce({EmptyDB}))
    /\ clock = 0
    /\ nops = 0
    /\ \E ih \in InfoHashes, p \in Peers, e \in Events, left \in 0..1 :
          \E fail \in SUBSET {c \in InteractCalls([ih |-> ih, peers |-> <<p>>]) :
                                 c.fn \in {"DeleteSeeder", "DeleteLeecher", "PutSeeder"}} :
             last = [op |-> "AfterAnnounce",
                     req |-> [ih |-> ih, peers |-> <<p>>, event |-> e, left |-> left,
                              numWant |-> 0],
                     fail |-> fail]
    /\ logic = NewLogic(<<>>, <<>>)
    /\ tasks = <<>>
    /\ closing = FALSE
    /\ ndg = 0
    /\ sent = {}
    /\ udpFE = NewFrontend
    /\ ps = NewStore

\* h.HandleAnnounce(ctx, req, resp) of the swarm-interaction hook
SwarmInteraction ==
    /\ last.op = "AfterAnnounce"
    /\ \E r \in {swarmInteractionHook(db, Background, last.req, clock, last.fail)} :
          /\ db' = r.db
          /\ last' = [op |-> "swarmInteraction", req |-> last.req, fail |-> last.fail,
                      d |-> db, err |-> r.err, calls |-> r.calls]
    /\ UNCHANGED <<clock, nops, feVars>>

NextInteract == SwarmInteraction

SpecInteract == InitInteract /\ [][NextInteract]_vars

\* ---------------------------------------------------------------------------
\* Config.Validate.  A time.Duration is a signed integer of DurationBits bits
\* (64 in the program), counted here in seconds.

DurationBits == 6

maxAllowedClockSkew == 30

defaultMaxClockSkew == 10

MinDuration == -(2 ^ (DurationBits - 1))

MaxDuration == 2 ^ (DurationBits - 1) - 1

Durations == MinDuration..MaxDuration

\* signed addition of DurationBits bits: the sum wraps around
DurationAdd(a, b) ==
    ((a + b - MinDuration) % (2 ^ DurationBits)) + MinDuration

\* x >> (DurationBits - 1), the arithmetic shift: all ones for a negative x
SignBits(x) == IF x < 0 THEN -1 ELSE 0

\* x ^ sb for sb all zeros or all ones: x, or its complement
XorSign(x, sb) == IF sb = 0 THEN x ELSE -x - 1

\* sb & 1
LowBit(sb) == IF sb = 0 THEN 0 ELSE 1

\* "ABS": (x ^ sb) + (sb & 1) with sb = x >> 63
absDuration(x) == DurationAdd(XorSign(x, SignBits(x)), LowBit(SignBits(x)))

\* the MaxClockSkew of the valid configuration
validMaxClockSkew(x) ==
    IF absDuration(x) = 0 \/ absDuration(x) > maxAllowedClockSkew
    THEN defaultMaxClockSkew
    ELSE absDuration(x)

\* the private key generated for an empty one
GeneratedKey == "generated"

\* Config.Validate (the ListenOptions and ParseOptions apart)
ConfigValidate(cfg) ==
    [Workers |-> IF cfg.Workers = 0 THEN 1 ELSE cfg.Workers,
     ReusePort |-> cfg.ReusePort \/ (IF cfg.Workers = 0 THEN 1 ELSE cfg.Workers) > 1,
     PrivateKey |-> IF cfg.PrivateKey = "" THEN GeneratedKey ELSE cfg.PrivateKey,
     MaxClockSkew |-> validMaxClockSkew(cfg.MaxClockSkew)]

Configs ==
    [Workers : 0..NSockets, ReusePort : BOOLEAN, PrivateKey : {"", "key"},
     MaxClockSkew : Durations]

InitConfig ==
    /\ db = EmptyDB
    /\ clock = 0
    /\ nops = 0
    /\ \E cfg \in Configs : last = [op |-> "Unmarshal", cfg |-> cfg]
    /\ logic = NewLogic(<<>>, <<>>)
    /\ tasks = <<>>
    /\ closing = FALSE
    /\ ndg = 0
    /\ sent = {}
    /\ udpFE = NewFrontend
    /\ ps = NewStore

\* cfg = cfg.Validate()
ValidateConfig ==
    /\ last.op = "Unmarshal"
    /\ last' = [op |-> "Validate", cfg |-> last.cfg, validCfg |-> ConfigValidate(last.cfg)]
    /\ UNCHANGED <<db, clock, nops, feVars>>

NextConfig == ValidateConfig

SpecConfig == InitConfig /\ [][NextConfig]_vars

(***************************************************************************)
(* NewFrontend: one socket and one serve loop per worker                   *)
(***************************************************************************)
\* the largest cfg.Workers considered
MaxWorkers == 4

ErrListen == "listen failed"

\* what cfg.ListenUDP() gives to each worker of the loop, in order: TRUE for
\* a socket, FALSE for an error
ListenOutcomes == UNION {[1..n -> BOOLEAN] : n \in 1..MaxWorkers}

\* NewFrontend before its loop: f.sockets all nil, err nil, nothing started
newFrontendAt(listen) ==
    [op |-> "NewFrontend", pc |-> "loop", listen |-> listen, i |-> 0,
     err |-> Nil, sockets |-> {}, serving |-> {}, closed |-> FALSE]

InitStart ==
    /\ db = EmptyDB
    /\ clock = 0
    /\ nops = 0
    /\ last \in {newFrontendAt(listen) : listen \in ListenOutcomes}
    /\ logic = NewLogic(<<>>, <<>>)
    /\ tasks = <<>>
    /\ closing = FALSE
    /\ ndg = 0
    /\ sent = {}
    /\ udpFE = NewFrontend
    /\ ps = NewStore

\* one iteration of the loop: f.sockets[i], err = cfg.ListenUDP(), and a
\* serve goroutine for the socket if err == nil
StartListen ==
    /\ last.op = "NewFrontend"
    /\ last.pc = "loop"
    /\ last.i < Len(last.listen)
    /\ LET i == last.i + 1
       IN  last' = IF last.listen[i]
                   THEN [last EXCEPT !.i = i, !.err = Nil,
                                     !.sockets = @ \cup {i}, !.serving = @ \cup {i}]
                   ELSE [last EXCEPT !.i = i, !.err = ErrListen]
    /\ UNCHANGED <<db, clock, nops, logic, tasks, closing, ndg, sent, udpFE, ps>>

\* after the loop: f.Close() if err != nil (the serve loops return and the
\* sockets are closed), then return f, err
StartReturn ==
    /\ last.op = "NewFrontend"
    /\ last.pc = "loop"
    /\ last.i = Len(last.listen)
    /\ last' = IF last.err # Nil
               THEN [last EXCEPT !.pc = "returned", !.closed = TRUE,
                                 !.sockets = {}, !.serving = {}]
               ELSE [last EXCEPT !.pc = "returned"]
    /\ UNCHANGED <<db, clock, nops, logic, tasks, closing, ndg, sent, udpFE, ps>>

NextStart ==
    \/ StartListen
    \/ StartReturn

SpecStart == InitStart /\ [][NextStart]_vars

(***************************************************************************)
(* gc command by command, with announces of other goroutines in between    *)
(***************************************************************************)
\* the store holds nothing, or what one announce at time 0 left
InitGC ==
    /\ db \in {EmptyDB} \cup AnnouncedOnce({EmptyDB})
    /\ clock = 0
    /\ nops = 0
    /\ last = [op |-> "none"]
    /\ logic = NewLogic(<<>>, <<>>)
    /\ tasks = <<>>
    /\ closing = FALSE
    /\ ndg = 0
    /\ sent = {}
    /\ udpFE = NewFrontend
    /\ ps = NewStore

\* the counter gc decrements for infoHashKey
cntKey(infoHashKey) == IF IsSeederKey(infoHashKey) THEN CountSeederKey ELSE CountLeecherKey

\* gc(cutoff): SMEMBERS CHI_I
GCSMembers ==
    \E peerLifeTime \in 0..MaxLifetime :
        /\ ps.sweep.pc = "idle"
        /\ nops < MaxOps
        /\ ps' = [ps EXCEPT !.sweep = [NoSweep EXCEPT !.pc = "loop",
                                                      !.cutoff = clock - peerLifeTime,
                                                      !.keys = db.ihSet]]
        /\ nops' = nops + 1
        /\ UNCHANGED <<db, clock, last, feFields>>

\* gc, for the next infoHashKey: HGETALL, and peersToRemove from the reply
GCHGetAll ==
    \E infoHashKey \in ps.sweep.keys :
        /\ ps.sweep.pc = "loop"
        /\ ps' = [ps EXCEPT !.sweep.keys = @ \ {infoHashKey},
                            !.sweep.key = infoHashKey,
                            !.sweep.peersToRemove =
                                peersToRemove(db.hash[infoHashKey], ps.sweep.cutoff),
                            !.sweep.removedPeerCount = 0,
                            !.sweep.pc =
                                IF peersToRemove(db.hash[infoHashKey], ps.sweep.cutoff) # {}
                                THEN "hdel" ELSE "hlen"]
        /\ UNCHANGED <<db, clock, nops, last, feFields>>

\* gc: HDEL infoHashKey peersToRemove...; the reply is the number of fields
\* that were there to delete
GCHDel ==
    /\ ps.sweep.pc = "hdel"
    /\ db' = [db EXCEPT !.hash[ps.sweep.key] = HDel(@, ps.sweep.peersToRemove)]
    /\ ps' = [ps EXCEPT !.sweep.removedPeerCount =
                            Cardinality(ps.sweep.peersToRemove
                                          \cap DOMAIN db.hash[ps.sweep.key]),
                        !.sweep.pc =
                            IF ps.sweep.peersToRemove \cap DOMAIN db.hash[ps.sweep.key] # {}
                            THEN "decrby" ELSE "hlen"]
    /\ UNCHANGED <<clock, nops, last, feFields>>

\* gc: DECRBY cntKey removedPeerCount
GCDecrBy ==
    /\ ps.sweep.pc = "decrby"
    /\ db' = [db EXCEPT !.count[cntKey(ps.sweep.key)] = @ - ps.sweep.removedPeerCount]
    /\ ps' = [ps EXCEPT !.sweep.pc = "hlen"]
    /\ UNCHANGED <<clock, nops, last, feFields>>

\* gc, inside ps.Watch: HLEN infoHashKey
GCHLen ==
    /\ ps.sweep.pc = "hlen"
    /\ ps' = [ps EXCEPT !.sweep.pc = IF HLen(db.hash[ps.sweep.key]) = 0
                                     THEN "srem" ELSE "loop"]
    /\ UNCHANGED <<db, clock, nops, last, feFields>>

\* gc, inside ps.Watch: SREM CHI_I infoHashKey, sent by ps and not queued in a
\* MULTI of tx, so that the WATCH of infoHashKey does not guard it
GCSRem ==
    /\ ps.sweep.pc = "srem"
    /\ db' = [db EXCEPT !.ihSet = @ \ {ps.sweep.key}]
    /\ ps' = [ps EXCEPT !.sweep.pc = "loop"]
    /\ UNCHANGED <<clock, nops, last, feFields>>

\* gc returns after the last infoHashKey
GCReturn ==
    /\ ps.sweep.pc = "loop"
    /\ ps.sweep.keys = {}
    /\ ps' = [ps EXCEPT !.sweep = NoSweep]
    /\ UNCHANGED <<db, clock, nops, last, feFields>>

NextGC ==
    \/ Tick
    \/ CallPutSeeder
    \/ CallPutLeecher
    \/ GCSMembers
    \/ GCHGetAll
    \/ GCHDel
    \/ GCDecrBy
    \/ GCHLen
    \/ GCSRem
    \/ GCReturn

SpecGC == InitGC /\ [][NextGC]_vars

\* C11: AnnouncePeers with forSeeder = TRUE returns peers of the leecher set
\* only; with forSeeder = FALSE it returns seeders first and leechers only to
\* fill the numWant - (seeders returned) slots left.
C11_SeedersFirstThenLeechers ==
    last.op = "AnnouncePeers" =>
        IF last.forSeeder
        THEN /\ \A i \in 1..Len(last.peers) : last.peers[i] \in DOMAIN AskedLeechers
             /\ Len(last.peers) = Min(last.numWant, HLen(AskedLeechers))
        ELSE LET k == Min(last.numWant, HLen(AskedSeeders)) IN
             /\ Len(last.peers) = k + Min(last.numWant - k, HLen(AskedLeechers))
             /\ \A i \in 1..Len(last.peers) :
                   IF i <= k THEN last.peers[i] \in DOMAIN AskedSeeders
                   ELSE last.peers[i] \in DOMAIN AskedLeechers

\* a leecher asked for two peers of a swarm of one seeder and one leecher, and
\* got the seeder and then the leecher
C11_Witness ==
    /\ last.op = "AnnouncePeers"
    /\ ~last.forSeeder
    /\ last.numWant = 2
    /\ Len(last.peers) = 2
    /\ last.peers[1] # last.peers[2]
    /\ DOMAIN AskedSeeders = {last.peers[1]}
    /\ DOMAIN AskedLeechers = {last.peers[2]}

\* C12: DeleteSeeder (DeleteLeecher) of a peer that is not in the seeder
\* (leecher) set of the infohash returns ErrResourceDoesNotExist and changes
\* no swarm and no counter; of a peer that is in it, it removes the peer and
\* decreases the matching counter by exactly 1.
C12_DeleteAbsentIsNotFound ==
    [][(OpStep /\ last'.op \in {"DeleteSeeder", "DeleteLeecher"}) =>
        LET seeder == last'.op = "DeleteSeeder"
            set == IF seeder THEN Seeders(db, last'.ih) ELSE Leechers(db, last'.ih)
            setAfter == IF seeder THEN Seeders(db', last'.ih) ELSE Leechers(db', last'.ih)
            counter == IF seeder THEN CountSeederKey ELSE CountLeecherKey
            other == IF seeder THEN CountLeecherKey ELSE CountSeederKey
        IN  IF last'.peer \notin set
            THEN last'.err = ErrResourceDoesNotExist /\ db' = db
            ELSE /\ last'.err = Nil
                 /\ setAfter = set \ {last'.peer}
                 /\ db'.count[counter] = db.count[counter] - 1
                 /\ db'.count[other] = db.count[other]
                 /\ db'.downloads = db.downloads
                 /\ \A k \in InfoHashKeys :
                       k # InfoHashKey(last'.ih, seeder, Is6(last'.peer))
                          => db'.hash[k] = db.hash[k]]_vars

\* a leecher that was put was deleted: the leecher counter is back at 0
C12_Witness ==
    /\ last.op = "DeleteLeecher"
    /\ last.err = Nil
    /\ nops = 2
    /\ last.peer \notin Leechers(db, last.ih)
    /\ db.count[CountLeecherKey] = 0

\* a step that ran gc
GCStep == OpStep /\ last'.op = "gc"

C14_GCDecrementsAndReaps ==
    [][GCStep =>
        /\ db'.count[CountSeederKey]
              = db.count[CountSeederKey] - (SeederEntries(db) - SeederEntries(db'))
        /\ db'.count[CountLeecherKey]
              = db.count[CountLeecherKey] - (LeecherEntries(db) - LeecherEntries(db'))
        /\ \A k \in db'.ihSet : DOMAIN db'.hash[k] # {}]_vars

\* gc removed the only peer: the counters are 0 and CHI_I is empty
C14_Witness ==
    /\ last.op = "gc"
    /\ last.removed = 1
    /\ nops = 2
    /\ db.ihSet = {}
    /\ db.count[CountSeederKey] = 0
    /\ db.count[CountLeecherKey] = 0

(***************************************************************************)
(* More claims about the frontend                                          *)
(***************************************************************************)
\* C15: for a datagram shorter than 16 bytes the frontend writes nothing,
\* neither a response nor an error frame, and calls neither the connection ID
\* validation nor the Logic nor the store.
C15_ShortDatagramDropped ==
    [][(HandleStep /\ ~last'.pkt.long)
       => /\ last'.out.wire = <<>>
          /\ last'.out.err = errMalformedPacket
          /\ last'.out.logic = "none"
          /\ last'.out.calls = <<>>
          /\ last'.out.asked = <<>>
          /\ tasks' = tasks
          /\ db' = db]_vars

\* a short datagram was handled
C15_Witness ==
    /\ last.op = "handleRequest"
    /\ ~last.pkt.long
    /\ last.out.wire = <<>>
    /\ ndg = 1

\* C17: a datagram of at least 16 bytes whose action ID is none of connect,
\* announce, scrape and announce-v6 gets exactly one error frame (action 3,
\* the transaction ID of the request) and reaches neither the Logic nor the
\* store.
C17_UnknownActionGetsErrorFrame ==
    [][(/\ HandleStep
        /\ last'.pkt.long
        /\ last'.pkt.actionID \notin {0, 1, 2, 4})
       => /\ Len(last'.out.wire) = 1
          /\ last'.out.wire[1].action = 3
          /\ last'.out.wire[1].txID = last'.pkt.txID
          /\ last'.out.logic = "none"
          /\ last'.out.calls = <<>>
          /\ last'.out.asked = <<>>
          /\ tasks' = tasks
          /\ db' = db]_vars

\* a datagram with a valid connection ID and an unknown action was answered
\* "unknown action"
C17_Witness ==
    /\ last.op = "handleRequest"
    /\ last.pkt.long
    /\ last.pkt.actionID = unknownActionID
    /\ last.out.err = errUnknownAction
    /\ Len(last.out.wire) = 1
    /\ last.out.wire[1].msg = "unknown action"

\* C16: a connect is answered without its connection ID being validated as
\* a token: if it is the initial connection ID the response has action 0, the
\* transaction ID of the request and a connection ID generated for the sender
\* at that time; if it is anything else nothing is written.  A connection ID
\* so written, presented in an announce from the same address no more than
\* max_clock_skew later, passes the connection ID check.
C16_ConnectIssuesUsableToken ==
    [][/\ (/\ HandleStep
           /\ last'.pkt.long
           /\ last'.pkt.actionID = connectActionID)
          => /\ last'.out.wire =
                    IF last'.pkt.connID = initialConnectionID
                    THEN <<[action |-> 0, txID |-> last'.pkt.txID,
                            connID |-> Generate(last'.pkt.ip, clock)]>>
                    ELSE <<>>
             /\ last'.out.logic = "none"
       /\ (/\ HandleStep
           /\ last'.pkt.long
           /\ last'.pkt.actionID = announceActionID
           /\ [ip |-> last'.pkt.ip, connID |-> last'.pkt.connID] \in issued
           /\ Abs(clock - last'.pkt.connID.ts) <= MaxClockSkew)
          => /\ last'.out.err # errBadConnectionID
             /\ last'.out.logic = "HandleAnnounce"]_vars

\* an announce that presents, one tick later, a connection ID written to its
\* sender was handed to the Logic
C16_Witness ==
    /\ last.op = "handleRequest"
    /\ last.pkt.actionID = announceActionID
    /\ [ip |-> last.pkt.ip, connID |-> last.pkt.connID] \in issued
    /\ last.now = last.pkt.connID.ts + 1
    /\ last.out.logic = "HandleAnnounce"
    /\ last.out.err = Nil

\* the peer lists the response hook may gather from the store d for req
Gathered(d, req) ==
    {f.peers : f \in fetchPeers(d, fetchArgs(req), req.left = 0, req.numWant, <<>>, <<>>)}

\* C18: when the response hook gathers no peer for an announce, the announce
\* does not fail, the peer lists of the response hold exactly the caller's
\* own peers, and Complete is one more than the swarm's seeders if left = 0,
\* otherwise Incomplete is one more than its leechers; on an empty swarm an
\* announce with left = 0 reports incomplete = 0 and complete = 1.
C18_LonelyAnnouncerGetsItself ==
    [][(/\ HandleStep
        /\ last'.pkt.long
        /\ last'.pkt.actionID = announceActionID
        /\ Validate(last'.pkt.connID, last'.pkt.ip, clock)
        /\ Gathered(db, last'.pkt.body) = {<<>>})
       => /\ last'.out.err = Nil
          /\ Len(last'.out.wire) = 1
          /\ last'.out.wire[1].action = announceActionID
          /\ Range(last'.out.resp.ipv4Peers) \cup Range(last'.out.resp.ipv6Peers)
                = Range(last'.pkt.body.peers)
          /\ Len(last'.out.resp.ipv4Peers) + Len(last'.out.resp.ipv6Peers)
                = Len(last'.pkt.body.peers)
          /\ last'.out.resp.complete =
                scrape(db, last'.pkt.body.ih).seeders
                    + (IF last'.pkt.body.left = 0 THEN 1 ELSE 0)
          /\ last'.out.resp.incomplete =
                scrape(db, last'.pkt.body.ih).leechers
                    + (IF last'.pkt.body.left = 0 THEN 0 ELSE 1)
          /\ (/\ last'.pkt.body.left = 0
              /\ \A k \in InfoHashKeys : db.hash[k] = EmptyHash)
             => /\ last'.out.resp.complete = 1
                /\ last'.out.resp.incomplete = 0]_vars

\* a seeder announced alone in a swarm that holds one seeder and got itself
\* back, with complete = 2
C18_Witness ==
    /\ last.op = "handleRequest"
    /\ last.pkt.actionID = announceActionID
    /\ last.out.logic = "HandleAnnounce"
    /\ last.pkt.body.left = 0
    /\ Len(last.out.asked) > 0
    /\ last.out.resp.complete = 2
    /\ last.out.resp.incomplete = 0
    /\ last.out.resp.ipv4Peers \o last.out.resp.ipv6Peers = last.pkt.body.peers
    /\ Gathered(db, last.pkt.body) = {<<>>}

\* an announce of ih with left = 0 and event = started
IsStartedSeeder(req, ih) == req.ih = ih /\ req.left = 0 /\ req.event = Started

\* the stores the post-hooks of such an announce leave of an empty store
AloneSeederStores(ih) ==
    {AfterAnnounce(logic, EmptyDB,
                   RemapRouteParamsToBgContext(InjectRouteParamsToContext(Background)),
                   [ih |-> ih, peers |-> <<ip>>, event |-> Started, left |-> 0,
                    numWant |-> MaxWant], t).db : ip \in 1..NIPs, t \in 0..MaxClock}

\* the response to such an announce on an empty store has been written: its
\* post-hooks are still to run, or they have run
AnsweredAlone(ih) ==
    \/ /\ db = EmptyDB
       /\ \E i \in 1..Len(tasks) :
             tasks[i].kind = "announce" /\ IsStartedSeeder(tasks[i].req, ih)
    \/ db \in AloneSeederStores(ih)

\* the one file of a scrape response
ScrapedFile(seeders, completed, leechers) ==
    <<[complete |-> seeders, snatches |-> completed, incomplete |-> leechers]>>

\* last' is a scrape that the Logic handled without error
ScrapeStep ==
    /\ HandleStep
    /\ last'.pkt.long
    /\ last'.pkt.actionID = scrapeActionID
    /\ last'.out.logic = "HandleScrape"
    /\ last'.out.err = Nil
    /\ Len(last'.out.wire) = 1

Membership(d, ih, p) == <<p \in Seeders(d, ih), p \in Leechers(d, ih)>>

\* C20: for an announce with a 32-byte infohash the swarm-interaction hook
\* performs every store operation on the v2 infohash on its v1 truncation
\* too, for the same peer, and once it has ended without error every peer of
\* the request is a seeder, a leecher or absent in the v1 swarm exactly as in
\* the v2 swarm.
C20_V2MirroredToV1 ==
    (/\ last.op = "AfterAnnounce"
     /\ last.task.req.ih.len = InfoHashV2Len
     /\ last.calls[Len(last.calls)].hook = SwarmInteractionHook
     /\ SkipSwarmInteractionKey \notin last.calls[Len(last.calls)].ctx.vals
     /\ last.logged = Nil)
    => LET req == last.task.req IN
       /\ \A call \in Range(last.storeCalls) :
             call.ih = req.ih
                => [call EXCEPT !.ih = TruncateV1(req.ih)] \in Range(last.storeCalls)
       /\ \A p \in Range(req.peers) :
             Membership(db, req.ih, p) = Membership(db, TruncateV1(req.ih), p)

(***************************************************************************)
(* Claims about responses, errors and shutdown                             *)
(***************************************************************************)
\* the seeders (resp. leechers) of ih and of its v1 truncation, each once
UnionSeeders(d, ih) == Seeders(d, ih) \cup Seeders(d, TruncateV1(ih))
UnionLeechers(d, ih) == Leechers(d, ih) \cup Leechers(d, TruncateV1(ih))

\* C21: for a 32-byte infohash the numbers of a scrape response and of an
\* announce response count a peer stored under the v2 key and under its v1
\* truncation once, and the peer lists of the announce response hold it once.
C21_V2ReadsDeduplicate ==
    [][/\ (ScrapeStep /\ last'.pkt.body.infoHashes[1].len = InfoHashV2Len)
          => /\ last'.out.resp.files[1].complete
                   = Cardinality(UnionSeeders(db, last'.pkt.body.infoHashes[1]))
             /\ last'.out.resp.files[1].incomplete
                   = Cardinality(UnionLeechers(db, last'.pkt.body.infoHashes[1]))
       /\ (/\ HandleStep
           /\ last'.pkt.long
           /\ last'.pkt.actionID = announceActionID
           /\ last'.out.logic = "HandleAnnounce"
           /\ last'.out.err = Nil
           /\ last'.pkt.body.ih.len = InfoHashV2Len)
          => /\ \A i, j \in 1..Len(last'.out.resp.ipv4Peers \o last'.out.resp.ipv6Peers) :
                   (last'.out.resp.ipv4Peers \o last'.out.resp.ipv6Peers)[i]
                      = (last'.out.resp.ipv4Peers \o last'.out.resp.ipv6Peers)[j] => i = j
             /\ Gathered(db, last'.pkt.body) # {<<>>}
                => /\ last'.out.resp.complete
                         = Cardinality(UnionSeeders(db, last'.pkt.body.ih))
                   /\ last'.out.resp.incomplete
                         = Cardinality(UnionLeechers(db, last'.pkt.body.ih))]_vars

\* the response hook was among the hooks of last' and was not told to skip
ResponseHookRan ==
    \E i \in 1..Len(last'.out.calls) :
        /\ last'.out.calls[i].hook = ResponseHook
        /\ SkipResponseHookKey \notin last'.out.calls[i].ctx.vals

\* the frame of a scrape response with the store's counts for infoHashes
ScrapeFrame(txID, d, infoHashes) ==
    [action |-> 2, txID |-> txID,
     files |-> [i \in 1..Len(infoHashes) |->
                   [complete |-> scrape(d, infoHashes[i]).seeders,
                    snatches |-> scrape(d, infoHashes[i]).snatched,
                    incomplete |-> scrape(d, infoHashes[i]).leechers]]]

C23_ErrorFrameMessage ==
    [][HandleStep
       => \A i \in 1..Len(last'.out.wire) :
             last'.out.wire[i].action = 3
                => /\ last'.out.wire[i].txID = last'.pkt.txID
                   /\ last'.out.wire[i].end = 0
                   /\ last'.out.err # Nil
                   /\ last'.out.wire[i].msg =
                         IF last'.out.err \in {"malformed packet", "bad connection id",
                                               "unknown action", "unapproved"}
                         THEN last'.out.err
                         ELSE "internal error occurred: " \o last'.out.err]_vars

\* a scrape for which the store failed was answered with an error frame that
\* carries the prefix
C23_Witness ==
    /\ last.op = "handleRequest"
    /\ last.out.err = ErrStorage
    /\ last.out.wire = <<[action |-> errorActionID, txID |-> last.pkt.txID,
                          msg |-> "internal error occurred: storage failure",
                          end |-> NUL]>>

\* C24: when the Logic returns context.Canceled for an announce or a scrape,
\* or returns no error and the context is found cancelled, the frontend
\* writes nothing for the datagram and starts no post-hook for it.
C24_CancelledGetsNoResponse ==
    [][(/\ HandleStep
        /\ last'.out.logic \in {"HandleAnnounce", "HandleScrape"}
        /\ \/ last'.out.lerr = Canceled
           \/ last'.out.lerr = Nil /\ last'.ctx.done)
       => /\ last'.out.wire = <<>>
          /\ last'.out.spawn = <<>>
          /\ last'.out.err = Canceled
          /\ tasks' = tasks
          /\ db' = db]_vars

\* an announce that every pre-hook let pass was handled with the context
\* cancelled
C24_Witness ==
    /\ last.op = "handleRequest"
    /\ last.out.logic = "HandleAnnounce"
    /\ last.out.lerr = Nil
    /\ last.ctx.done
    /\ last.out.resp.complete + last.out.resp.incomplete = 1
    /\ last.out.wire = <<>>
    /\ tasks = <<>>

\* C25: Close signals closing, then sets the deadline of every socket, then
\* waits until every serve loop and every handler goroutine has finished, and
\* only then closes the sockets: no socket is closed while a handler
\* goroutine is running.
C25_CloseOrder ==
    /\ udpFE.pc # "running" => closing
    /\ udpFE.pc \in {"wait", "closeGroup", "closed"} => udpFE.deadline = Sockets
    /\ udpFE.pc \in {"closeGroup", "closed"}
          => /\ udpFE.wg = 0
             /\ udpFE.handlers = <<>>
             /\ \A s \in Sockets : udpFE.serve[s] = "returned"
    /\ udpFE.open # Sockets => udpFE.pc = "closed"
    /\ udpFE.handlers # <<>> => udpFE.open = Sockets

\* the sockets were closed after a handler goroutine, started before Close,
\* had run while Close was waiting
C25_Witness ==
    /\ udpFE.pc = "closed"
    /\ udpFE.open = {}
    /\ last.op = "handleRequest"
    /\ last.ctx.done
    /\ ndg = MaxCloseDatagrams

\* the frames written so far that answer an announce or a scrape
Responses ==
    {w \in sent : w.frame.action \in {announceActionID, announceV6ActionID, scrapeActionID}}

\* C26: the post-hook chain of an announce or a scrape is started only with
\* its response written, as a task of its own that runs in a later step;
\* nothing a post-hook does, failing included, changes what was written; the
\* swarm-interaction hook is the last post-hook of the chain.
C26_PostHooksAfterResponse ==
    [][/\ (HandleStep /\ last'.out.logic \in {"HandleAnnounce", "HandleScrape"})
          => /\ last'.out.err = Nil
                => /\ Len(last'.out.wire) = 1
                   /\ [ip |-> last'.pkt.ip, frame |-> last'.out.wire[1]] \in Responses'
                   /\ Len(last'.out.spawn) = 1
             /\ last'.out.err # Nil => last'.out.spawn = <<>>
             /\ tasks' = tasks \o last'.out.spawn
             /\ db' = db
       /\ TaskStep
          => /\ sent' = sent
             /\ Responses # {}
             /\ \A i \in 1..Len(last'.calls) : last'.calls[i].hook = logic.postHooks[i]
             /\ last'.logged = Nil
                => /\ Len(last'.calls) = Len(logic.postHooks)
                   /\ last'.calls[Len(last'.calls)].hook = SwarmInteractionHook
       /\ logic.postHooks[Len(logic.postHooks)] = SwarmInteractionHook]_vars

\* a post-hook of an announce failed after the response had been written
C26_Witness ==
    /\ last.op = "AfterAnnounce"
    /\ last.logged = ErrHookFailed
    /\ \E w \in Responses : w.frame.action = announceActionID
    /\ tasks = <<>>

\* C27: the post-hooks of a request run on a context that the cancel function
\* of the frontend does not cancel: with Close called after the response was
\* written, every post-hook still gets a context that is not done, and the
\* chain is not ended by context.Canceled.
C27_PostHooksSurviveCancel ==
    [][TaskStep
       => /\ \A i \in 1..Len(last'.calls) :
                /\ ~last'.calls[i].ctx.done
                /\ last'.calls[i].ctx.cancel # "ctxCancel"
          /\ Len(last'.calls) >= 1
          /\ last'.logged # Canceled]_vars

\* Close was called with the post-hooks of an announce still to run, and the
\* swarm-interaction hook put the peer into the store afterwards
C27_Witness ==
    /\ closing
    /\ last.op = "AfterAnnounce"
    /\ last.logged = Nil
    /\ last.storeCalls # <<>>
    /\ last.storeCalls[1].fn = "PutSeeder"
    /\ Seeders(db, last.task.req.ih) # {}

C29_StopWaitsForGoroutines ==
    [][/\ (ps'.client = "nil" \/ ps'.result # "none" \/ ps'.stop \in {"client", "done", "delivered"})
          => /\ ps'.gc \in {"none", "returned"}
             /\ ps'.stats \in {"none", "returned"}
             /\ ps'.wg = 0
       /\ (ps.gc # "gc" /\ ps'.gc = "gc")
          => /\ ps.stop \in {"none", "close", "wait"}
             /\ ps.client = "open"
       /\ (ps.result = "none" /\ ps'.result # "none") => ps.client = "nil"]_vars

\* Stop delivered its result after both goroutines were scheduled and a gc
\* sweep removed a peer
C29_Witness ==
    /\ ps.stop = "delivered"
    /\ ps.result = Nil
    /\ ps.client = "nil"
    /\ ps.gc = "returned"
    /\ ps.stats = "returned"
    /\ last.op = "gc"
    /\ last.removed >= 1

\* C30: after appendPeers no peer occurs twice in IPv4Peers and IPv6Peers taken
\* together, IPv4Peers holds IPv4 peers only and IPv6Peers IPv6 peers only, and
\* a peer whose address is neither is in neither list.
C30_PeersUniqueAndSplitByFamily ==
    last.op = "appendPeers"
    => LET all == last.resp.ipv4Peers \o last.resp.ipv6Peers
       IN  /\ \A i, j \in 1..Len(all) : all[i] = all[j] => i = j
           /\ \A i \in 1..Len(last.resp.ipv4Peers) : Is4(last.resp.ipv4Peers[i])
           /\ \A i \in 1..Len(last.resp.ipv6Peers) : Is6(last.resp.ipv6Peers[i])
           /\ \A i \in 1..Len(all) : all[i] # InvalidPeer

\* appendPeers was handed the same peer twice and a peer with neither kind of
\* address, or the same peer by an earlier hook and by the store, and answered
\* with a peer
C30_Witness ==
    /\ last.op = "appendPeers"
    /\ LET given == last.given.ipv4Peers \o last.given.ipv6Peers
       IN  /\ Len(given) = 2
           /\ \/ given[1] = given[2]
              \/ InvalidPeer \in {given[1], given[2]}
           /\ last.req.numWant >= 2
    /\ Len(last.resp.ipv4Peers) + Len(last.resp.ipv6Peers) >= 1

\* C31: appendPeers asks the store for (ih, caller's family), (ih, other
\* family) and, for a v2 infohash only, the same two of the truncated
\* infohash, in this order; every call asks for the peers still missing, the
\* calls end as soon as numWant peers are gathered, and the peers kept of the
\* given lists and got from the store are never more than numWant.
C31_StoreAskedInOrderForTheMissing ==
    last.op = "appendPeers"
    => LET a == last.asked
           req == last.req
           own == Is6(req.peers[1])
           kept == IF Len(last.given.ipv4Peers) + Len(last.given.ipv6Peers) > req.numWant
                   THEN req.numWant
                   ELSE Len(last.given.ipv4Peers) + Len(last.given.ipv6Peers)
           most == IF req.ih.len = InfoHashV2Len THEN 4 ELSE 2
       IN  /\ Len(a) <= most
           /\ \A i \in 1..Len(a) :
                 /\ a[i].ih = (IF i <= 2 THEN req.ih
                               ELSE [len |-> InfoHashV1Len, id |-> req.ih.id])
                 /\ a[i].v6 = (IF i \in {1, 3} THEN own ELSE ~own)
                 /\ a[i].forSeeder = (req.left = 0)
                 /\ a[i].numWant = (IF i = 1 THEN req.numWant - kept
                                    ELSE a[i - 1].numWant - a[i - 1].got)
                 /\ a[i].numWant > 0
                 /\ a[i].got <= a[i].numWant
           /\ Len(a) = 0 => (req.numWant - kept = 0)
           /\ (Len(a) > 0 /\ Len(a) < most) => a[Len(a)].got = a[Len(a)].numWant

\* an announce of a v2 infohash got a peer of each family from the store and,
\* with numWant peers gathered, did not ask for the truncated infohash
C31_Witness ==
    /\ last.op = "appendPeers"
    /\ last.req.ih.len = InfoHashV2Len
    /\ Len(last.asked) = 2
    /\ last.asked[1].got = 1
    /\ last.asked[2].got = 1
    /\ last.asked[2].numWant = 1

\* C32: a Stopped announce makes the swarm-interaction hook return no error
\* whether the peer is a seeder, a leecher, both or neither: DeleteLeecher is
\* attempted after a DeleteSeeder that found nothing, and the hook returns an
\* error exactly when the store failed an operation otherwise, that error.
C32_StoppedSuppressesNotFound ==
    (last.op = "swarmInteraction" /\ last.req.event = Stopped)
    => LET c == last.calls
           p == last.req.peers[1]
       IN  /\ Len(c) >= 1
           /\ c[1] = [fn |-> "DeleteSeeder", ih |-> last.req.ih, peer |-> p]
           /\ c[1] \notin last.fail
              => /\ Len(c) >= 2
                 /\ c[2] = [fn |-> "DeleteLeecher", ih |-> last.req.ih, peer |-> p]
           /\ (last.err = Nil) <=> (\A i \in 1..Len(c) : c[i] \notin last.fail)
           /\ last.err # Nil => (last.err = ErrStorage /\ c[Len(c)] \in last.fail)
           /\ last.err = Nil
              => /\ p \notin Seeders(db, last.req.ih)
                 /\ p \notin Leechers(db, last.req.ih)

\* a Stopped announce of a peer that was a leecher only: DeleteSeeder found
\* nothing, DeleteLeecher removed the peer, the hook returned no error
C32_Witness ==
    /\ last.op = "swarmInteraction"
    /\ last.req.event = Stopped
    /\ last.fail = {}
    /\ last.req.peers[1] \notin Seeders(last.d, last.req.ih)
    /\ last.req.peers[1] \in Leechers(last.d, last.req.ih)
    /\ last.req.peers[1] \notin Leechers(db, last.req.ih)
    /\ last.err = Nil

\* C33: Close may be called any number of times and by several goroutines: the
\* body of onceCloser.Do is run once at most, a serve loop returns only after
\* it found f.closing closed, and with the handler goroutines terminating
\* every serve loop returns once Close has signalled and every call of Close
\* returns.
C33_CloseOnceAndReturns ==
    /\ [](udpFE.runs <= 1)
    /\ [](\A s \in Sockets : udpFE.serve[s] = "returned" => closing)
    /\ closing ~> (\A s \in Sockets : udpFE.serve[s] = "returned")
    /\ \A c \in Closers : (udpFE.close[c] = "do") ~> (udpFE.close[c] = "returned")

\* two goroutines called Close and both calls returned, with the body run once,
\* after a datagram was handled and every serve loop returned
C33_Witness ==
    /\ \A c \in Closers : udpFE.close[c] = "returned"
    /\ udpFE.runs = 1
    /\ udpFE.pc = "closed"
    /\ \A s \in Sockets : udpFE.serve[s] = "returned"
    /\ ndg >= 1

\* C34: handleRequest writes one datagram at most for a datagram received,
\* whichever way it leaves, and writes it to the sender.
C34_AtMostOneDatagramBack ==
    [][HandleStep
       => /\ Len(last'.out.wire) <= 1
          /\ Cardinality(sent' \ sent) <= 1
          /\ \A w \in sent' \ sent : w.ip = last'.pkt.ip
          /\ sent \subseteq sent']_vars

\* a pre-hook of the caller failed for an announce and one error frame was
\* written
C34_Witness ==
    /\ last.op = "handleRequest"
    /\ last.out.logic = "HandleAnnounce"
    /\ last.out.lerr = ErrHookFailed
    /\ Len(last.out.wire) = 1
    /\ last.out.wire[1].action = errorActionID
    /\ Cardinality(sent) = 1

\* C35: once a call of Close has returned, no goroutine of Logic.AfterAnnounce
\* or Logic.AfterScrape started by the frontend is left to run, so nothing
\* changes the store after Close.
C35_NoPostHookAfterClose ==
    (\E c \in Closers : udpFE.close[c] = "returned") => tasks = <<>>

\* a post-hook put a seeder into the store after Close had returned
C35_PostHookRanAfterClose ==
    /\ \E c \in Closers : udpFE.close[c] = "returned"
    /\ last.op = "AfterAnnounce"
    /\ last.storeCalls # <<>>
    /\ Seeders(db, last.task.req.ih) # {}

\* C36: for every value of max_clock_skew, the most negative one included,
\* Config.Validate returns 0 < MaxClockSkew <= 30s: the absolute value where
\* that lies in (0, 30s], the default of 10s otherwise.
C36_ClockSkewValidated ==
    last.op = "Validate"
    => LET x == last.cfg.MaxClockSkew
           a == IF x < 0 THEN -x ELSE x
           v == last.validCfg.MaxClockSkew
       IN  /\ 0 < v
           /\ v <= maxAllowedClockSkew
           /\ v = (IF 0 < a /\ a <= maxAllowedClockSkew THEN a ELSE defaultMaxClockSkew)

\* the same for every value but the most negative one
C36_ClockSkewValidatedButMin ==
    (last.op = "Validate" /\ last.cfg.MaxClockSkew # MinDuration)
    => LET x == last.cfg.MaxClockSkew
           a == IF x < 0 THEN -x ELSE x
           v == last.validCfg.MaxClockSkew
       IN  /\ 0 < v
           /\ v <= maxAllowedClockSkew
           /\ v = (IF 0 < a /\ a <= maxAllowedClockSkew THEN a ELSE defaultMaxClockSkew)

\* Validate left the most negative duration as the clock skew
C36_NegativeSkewKept ==
    /\ last.op = "Validate"
    /\ last.cfg.MaxClockSkew = MinDuration
    /\ last.validCfg.MaxClockSkew < 0

\* C37: NewFrontend returns a non-nil error, shut down, whenever opening the
\* socket failed for at least one worker, whichever its index; it returns a
\* nil error only with every worker's socket open and its serve loop running.
C37_StartFailsIfAnyListenFails ==
    (last.op = "NewFrontend" /\ last.pc = "returned") =>
        /\ (\E i \in DOMAIN last.listen : ~last.listen[i]) =>
              (last.err # Nil /\ last.closed /\ last.serving = {})
        /\ last.err = Nil =>
              (last.sockets = DOMAIN last.listen /\ last.serving = DOMAIN last.listen)

\* NewFrontend has returned a nil error although an earlier worker's socket
\* could not be opened
C37_ListenErrorDropped ==
    /\ last.op = "NewFrontend"
    /\ last.pc = "returned"
    /\ last.err = Nil
    /\ ~last.closed
    /\ \E i \in DOMAIN last.listen : ~last.listen[i] /\ i \notin last.sockets

\* last' is an announce that the Logic handled without error
AnnounceStep ==
    /\ HandleStep
    /\ last'.pkt.long
    /\ last'.pkt.actionID = announceActionID
    /\ last'.out.logic = "HandleAnnounce"
    /\ last'.out.err = Nil

\* the announcing peer, if its announce (left) makes it a seeder (TRUE) or a
\* leecher (FALSE)
CallerAs(req, seeder) == IF (req.left = 0) = seeder THEN {req.peers[1]} ELSE {}

\* C38: in every announce response Complete does not exceed the number of
\* distinct seeders of the swarm and Incomplete not the number of distinct
\* leechers, the caller counted at most once; a peer stored as the only seeder
\* that announces again with left = 0 receives complete = 1.
C38_CountsWithinSwarm ==
    [][AnnounceStep
         => /\ last'.out.resp.complete
                 <= Cardinality(UnionSeeders(db, last'.pkt.body.ih)
                                  \cup CallerAs(last'.pkt.body, TRUE))
            /\ last'.out.resp.incomplete
                 <= Cardinality(UnionLeechers(db, last'.pkt.body.ih)
                                  \cup CallerAs(last'.pkt.body, FALSE))]_vars

\* the only seeder of a v1 swarm without leechers has announced again with
\* left = 0 and has been answered complete = 2
C38_LoneSeederCountedTwice ==
    /\ last.op = "handleRequest"
    /\ last.pkt.long
    /\ last.pkt.actionID = announceActionID
    /\ last.out.logic = "HandleAnnounce"
    /\ last.out.err = Nil
    /\ last.pkt.body.ih.len = InfoHashV1Len
    /\ last.pkt.body.left = 0
    /\ Seeders(db, last.pkt.body.ih) = {last.pkt.body.peers[1]}
    /\ Leechers(db, last.pkt.body.ih) = {}
    /\ last.out.resp.complete = 2

\* the (peer, timestamp) fields a step removes from the hash of infoHashKey
RemovedFrom(infoHashKey) ==
    {p \in DOMAIN db.hash[infoHashKey] : p \notin DOMAIN db'.hash[infoHashKey]}

\* C39: under any interleaving of gc with PutSeeder and PutLeecher, gc never
\* removes a peer whose stored timestamp at the moment of removal is greater
\* than the cutoff (a peer refreshed between gc's snapshot and gc's delete
\* stays), and the counters match the contents once gc has returned.
C39_GCSparesRefreshedPeers ==
    [][/\ ps.sweep.pc = "hdel"
          => \A p \in RemovedFrom(ps.sweep.key) :
                db.hash[ps.sweep.key][p] <= ps.sweep.cutoff
       /\ (ps.sweep.pc # "idle" /\ ps'.sweep.pc = "idle")
          => /\ db'.count[CountSeederKey] = SeederEntries(db')
             /\ db'.count[CountLeecherKey] = LeecherEntries(db')]_vars

\* gc's HDEL never removes a peer with a timestamp after the cutoff
C39_RemovedOnlyExpired ==
    [][ps.sweep.pc = "hdel"
          => \A p \in RemovedFrom(ps.sweep.key) :
                db.hash[ps.sweep.key][p] <= ps.sweep.cutoff]_vars

====
